---- MODULE Spec2Model ----
(***************************************************************************)
(* Sprint tracker: the StorageAdapter contract, its three implementations  *)
(* (SQLiteStorage, DexieStorage, createMockStorage), the entity services   *)
(* built on it and the JSON export/import service.                         *)
(*                                                                         *)
(* Encodings.  Identifiers are strings; MalformedId is a string that fails *)
(* isValidUUID.  Calendar dates are day numbers (a fixed-width ISO date    *)
(* string compares as its day number does); a number below 1 is a string   *)
(* that fails isValidDate, 0 one of the wrong length.  Hours are counted   *)
(* in units of 1/HourScale hour, so 5 is 0.25 h and 2 is 0.1 h.            *)
(* Timestamps are clock readings.  A nullable                              *)
(* value is the empty set (null) or a singleton: the tri-state behaald is  *)
(* {}, {TRUE} or {FALSE} in the application and {}, {1} or {0} in a SQLite *)
(* row; voltooid is a boolean in the application and 1 or 0 in a row.      *)
(***************************************************************************)
EXTENDS Integers, Sequences, FiniteSets, TLC

VARIABLES adapter, sprints, goals, criteria, bg, ret, now, replica, answers

vars == <<adapter, sprints, goals, criteria, bg, ret, now, replica, answers>>

(***************************** bounds and pools ****************************)
MaxTime == 2
MaxBatch == 2

Adapters == {"sqlite", "dexie", "mock"}

SprintIds == {"s1", "s2"}
GoalIds == {"g1", "g2"}
CritIds == {"c1", "c2"}
MalformedId == "bad"

HourScale == 4 * 5

Null == {}
Some(v) == {v}
TheValue(o) == CHOOSE v \in o : TRUE

LongText == "<text longer than every limit>"
TextLen(s) == IF s = LongText THEN 2001 ELSE Len(s)

(******************************* validation ********************************)
isValidUUID(id) == id # MalformedId

isValidDate(d) == d >= 1

\* every clock reading is a parseable ISO timestamp; 0 is a string that is not
isValidDateTime(t) == t >= 1

\* an hours check that accepts every non-negative number
AnyNonNegativeHours(hours) == hours >= 0

isValidHoursPrecision(hours) == hours >= 0 /\ (hours * 4) % HourScale = 0

\* validateCreateSprint: the set of violated rules
validateCreateSprint(input) ==
    (IF input.volgnummer < 1 THEN {"volgnummer"} ELSE {})
    \cup (IF ~isValidDate(input.startdatum) THEN {"startdatum"} ELSE {})
    \cup (IF ~isValidDate(input.einddatum) THEN {"einddatum"} ELSE {})
    \cup (IF /\ isValidDate(input.startdatum)
             /\ isValidDate(input.einddatum)
             /\ input.einddatum <= input.startdatum
          THEN {"order"} ELSE {})

\* validateUpdateSprint: every field is optional and checked on its own
validateUpdateSprint(input) ==
    (IF "volgnummer" \in DOMAIN input /\ input.volgnummer < 1
     THEN {"volgnummer"} ELSE {})
    \cup (IF "startdatum" \in DOMAIN input /\ ~isValidDate(input.startdatum)
          THEN {"startdatum"} ELSE {})
    \cup (IF "einddatum" \in DOMAIN input /\ ~isValidDate(input.einddatum)
          THEN {"einddatum"} ELSE {})

validateCreateGoal(input) ==
    (IF ~isValidUUID(input.sprint_id) THEN {"sprint_id"} ELSE {})
    \cup (IF TextLen(input.titel) = 0 \/ TextLen(input.titel) > 200
          THEN {"titel"} ELSE {})
    \cup (IF TextLen(input.beschrijving) > 2000 THEN {"beschrijving"} ELSE {})
    \cup (IF TextLen(input.eigenaar) = 0 \/ TextLen(input.eigenaar) > 50
          THEN {"eigenaar"} ELSE {})
    \cup (IF input.geschatte_uren < 0 THEN {"geschatte_uren"}
          ELSE IF ~isValidHoursPrecision(input.geschatte_uren)
               THEN {"geschatte_uren precision"} ELSE {})

\* a validation of goal updates that accepts everything
AcceptAnyGoalUpdate(input) == {}

validateUpdateGoal(input) ==
    (IF "titel" \in DOMAIN input
        /\ (TextLen(input.titel) = 0 \/ TextLen(input.titel) > 200)
     THEN {"titel"} ELSE {})
    \cup (IF "beschrijving" \in DOMAIN input /\ TextLen(input.beschrijving) > 2000
          THEN {"beschrijving"} ELSE {})
    \cup (IF "eigenaar" \in DOMAIN input
             /\ (TextLen(input.eigenaar) = 0 \/ TextLen(input.eigenaar) > 50)
          THEN {"eigenaar"} ELSE {})
    \cup (IF "geschatte_uren" \in DOMAIN input
          THEN IF input.geschatte_uren < 0 THEN {"geschatte_uren"}
               ELSE IF ~isValidHoursPrecision(input.geschatte_uren)
                    THEN {"geschatte_uren precision"} ELSE {}
          ELSE {})
    \cup (IF "werkelijke_uren" \in DOMAIN input /\ input.werkelijke_uren # Null
          THEN IF TheValue(input.werkelijke_uren) < 0 THEN {"werkelijke_uren"}
               ELSE IF ~isValidHoursPrecision(TheValue(input.werkelijke_uren))
                    THEN {"werkelijke_uren precision"} ELSE {}
          ELSE {})
    \cup (IF "toelichting" \in DOMAIN input /\ input.toelichting # Null
             /\ TextLen(TheValue(input.toelichting)) > 2000
          THEN {"toelichting"} ELSE {})
    \cup (IF "geleerde_lessen" \in DOMAIN input /\ input.geleerde_lessen # Null
             /\ TextLen(TheValue(input.geleerde_lessen)) > 2000
          THEN {"geleerde_lessen"} ELSE {})

validateCreateSuccessCriterion(input) ==
    (IF ~isValidUUID(input.goal_id) THEN {"goal_id"} ELSE {})
    \cup (IF TextLen(input.beschrijving) = 0 \/ TextLen(input.beschrijving) > 500
          THEN {"beschrijving"} ELSE {})

validateUpdateSuccessCriterion(input) ==
    IF "beschrijving" \in DOMAIN input
       /\ (TextLen(input.beschrijving) = 0 \/ TextLen(input.beschrijving) > 500)
    THEN {"beschrijving"} ELSE {}

(************************** tables and row helpers *************************)
NoRows == [x \in {} |-> x]

Put(tbl, id, row) ==
    [x \in DOMAIN tbl \cup {id} |-> IF x = id THEN row ELSE tbl[x]]

Drop(tbl, ids) == [x \in DOMAIN tbl \ ids |-> tbl[x]]

\* { ...existing, ...updates }
Merge(row, updates) ==
    [f \in DOMAIN row \cup DOMAIN updates |->
        IF f \in DOMAIN updates THEN updates[f] ELSE row[f]]

Db(s, g, c) == [sprints |-> s, goals |-> g, criteria |-> c]

Threw(db) == [db |-> db, ok |-> FALSE, val |-> FALSE]
Done(db, val) == [db |-> db, ok |-> TRUE, val |-> val]

(************************ SQLiteStorage row mapping ************************)
\* createGoal: behaald === null ? null : (behaald ? 1 : 0)
\* A write of behaald that keeps true and turns everything else into NULL.
GoalToDbTruthy(goal) ==
    [goal EXCEPT !.behaald = IF goal.behaald = Some(TRUE) THEN Some(1) ELSE Null]

GoalToDb(goal) ==
    [goal EXCEPT !.behaald = IF goal.behaald = Null THEN Null
                             ELSE IF TheValue(goal.behaald) THEN Some(1)
                                  ELSE Some(0)]

mapDbToGoal(row) ==
    [row EXCEPT !.behaald = IF row.behaald = Null THEN Null
                            ELSE Some(TheValue(row.behaald) = 1)]

CriterionToDb(criterion) ==
    [criterion EXCEPT !.voltooid = IF criterion.voltooid THEN 1 ELSE 0]

mapDbToCriterion(row) == [row EXCEPT !.voltooid = (row.voltooid = 1)]

(********************* SQLite schema (runMigrationV1) **********************)
IdLength36(id) == id # MalformedId
DateLength10(d) == d # 0

SprintRowOk(db, row) ==
    /\ IdLength36(row.id)
    /\ row.volgnummer > 0
    /\ \A o \in DOMAIN db.sprints :
          o # row.id => db.sprints[o].volgnummer # row.volgnummer
    /\ DateLength10(row.startdatum)
    /\ DateLength10(row.einddatum)
    /\ row.einddatum > row.startdatum

GoalRowOk(db, row) ==
    /\ IdLength36(row.id)
    /\ row.sprint_id \in DOMAIN db.sprints
    /\ TextLen(row.titel) <= 200 /\ TextLen(row.titel) > 0
    /\ TextLen(row.beschrijving) <= 2000
    /\ TextLen(row.eigenaar) <= 50 /\ TextLen(row.eigenaar) > 0
    /\ row.geschatte_uren >= 0
    /\ (row.werkelijke_uren = Null \/ TheValue(row.werkelijke_uren) >= 0)
    /\ (row.behaald = Null \/ TheValue(row.behaald) \in {0, 1})
    /\ (row.toelichting = Null \/ TextLen(TheValue(row.toelichting)) <= 2000)
    /\ (row.geleerde_lessen = Null
           \/ TextLen(TheValue(row.geleerde_lessen)) <= 2000)

CriterionRowOk(db, row) ==
    /\ IdLength36(row.id)
    /\ row.goal_id \in DOMAIN db.goals
    /\ TextLen(row.beschrijving) <= 500 /\ TextLen(row.beschrijving) > 0
    /\ row.voltooid \in {0, 1}

(**************************** cascade helpers ******************************)
GoalsOfSprint(db, id) == {g \in DOMAIN db.goals : db.goals[g].sprint_id = id}

CriteriaOfGoals(db, gids) ==
    {c \in DOMAIN db.criteria : db.criteria[c].goal_id \in gids}

(*************************** StorageAdapter: sprints ***********************)
createSprint(a, db, sprint) ==
    CASE a = "sqlite" ->
           IF sprint.id \notin DOMAIN db.sprints /\ SprintRowOk(db, sprint)
           THEN Done([db EXCEPT !.sprints = Put(@, sprint.id, sprint)], TRUE)
           ELSE Threw(db)
      [] a = "dexie" ->
           IF sprint.id \notin DOMAIN db.sprints
           THEN Done([db EXCEPT !.sprints = Put(@, sprint.id, sprint)], TRUE)
           ELSE Threw(db)
      [] a = "mock" ->
           Done([db EXCEPT !.sprints = Put(@, sprint.id, sprint)], TRUE)

getSprintById(a, db, id) ==
    IF id \in DOMAIN db.sprints THEN Some(db.sprints[id]) ELSE Null

\* an existence check that finds every sprint
AnySprintExists(a, db, sprintId) == TRUE

sprintExists(a, db, sprintId) == sprintId \in DOMAIN db.sprints

SqlSprintColumns == {"volgnummer", "startdatum", "einddatum"}

updateSprint(a, db, id, updates) ==
    CASE a = "sqlite" ->
           LET sets == [f \in DOMAIN updates \cap SqlSprintColumns |-> updates[f]]
           IN  IF DOMAIN sets = {} \/ id \notin DOMAIN db.sprints
               THEN Done(db, TRUE)
               ELSE LET row == Merge(db.sprints[id], sets)
                    IN  IF SprintRowOk(db, row)
                        THEN Done([db EXCEPT !.sprints = Put(@, id, row)], TRUE)
                        ELSE Threw(db)
      [] a \in {"dexie", "mock"} ->
           IF id \in DOMAIN db.sprints
           THEN Done([db EXCEPT !.sprints =
                          Put(@, id, Merge(db.sprints[id], updates))], TRUE)
           ELSE Done(db, TRUE)

\* deleteSprint that leaves the criteria of the sprint's goals behind
CascadeSprintGoalsOnly(db, id) ==
    Db(Drop(db.sprints, {id}), Drop(db.goals, GoalsOfSprint(db, id)), db.criteria)

\* SQLite: DELETE with ON DELETE CASCADE; Dexie and the mock: criteria of the
\* sprint's goals, then the goals, then the sprint.
CascadeSprint(db, id) ==
    LET gids == GoalsOfSprint(db, id)
    IN  Db(Drop(db.sprints, {id}),
           Drop(db.goals, gids),
           Drop(db.criteria, CriteriaOfGoals(db, gids)))

deleteSprint(a, db, id) ==
    CASE a = "sqlite" ->
           IF id \in DOMAIN db.sprints THEN Done(CascadeSprint(db, id), TRUE)
           ELSE Done(db, FALSE)
      [] a = "dexie" -> Done(CascadeSprint(db, id), TRUE)
      [] a = "mock" -> Done(CascadeSprint(db, id), id \in DOMAIN db.sprints)

(**************************** StorageAdapter: goals ************************)
createGoal(a, db, goal) ==
    CASE a = "sqlite" ->
           LET row == GoalToDb(goal)
           IN  IF goal.id \notin DOMAIN db.goals /\ GoalRowOk(db, row)
               THEN Done([db EXCEPT !.goals = Put(@, goal.id, row)], TRUE)
               ELSE Threw(db)
      [] a = "dexie" ->
           IF goal.id \notin DOMAIN db.goals
           THEN Done([db EXCEPT !.goals = Put(@, goal.id, goal)], TRUE)
           ELSE Threw(db)
      [] a = "mock" ->
           Done([db EXCEPT !.goals = Put(@, goal.id, goal)], TRUE)

getGoalById(a, db, id) ==
    IF id \notin DOMAIN db.goals THEN Null
    ELSE IF a = "sqlite" THEN Some(mapDbToGoal(db.goals[id]))
         ELSE Some(db.goals[id])

goalExists(a, db, goalId) == goalId \in DOMAIN db.goals

SqlGoalColumns ==
    {"titel", "beschrijving", "eigenaar", "geschatte_uren", "werkelijke_uren",
     "behaald", "toelichting", "geleerde_lessen", "gewijzigd_op"}

updateGoal(a, db, id, updates) ==
    CASE a = "sqlite" ->
           LET sets == [f \in DOMAIN updates \cap SqlGoalColumns |->
                          IF f = "behaald"
                          THEN IF updates[f] = Null THEN Null
                               ELSE IF TheValue(updates[f]) THEN Some(1)
                                    ELSE Some(0)
                          ELSE updates[f]]
           IN  IF DOMAIN sets = {} \/ id \notin DOMAIN db.goals
               THEN Done(db, TRUE)
               ELSE LET row == Merge(db.goals[id], sets)
                    IN  IF GoalRowOk(db, row)
                        THEN Done([db EXCEPT !.goals = Put(@, id, row)], TRUE)
                        ELSE Threw(db)
      [] a \in {"dexie", "mock"} ->
           IF id \in DOMAIN db.goals
           THEN Done([db EXCEPT !.goals =
                          Put(@, id, Merge(db.goals[id], updates))], TRUE)
           ELSE Done(db, TRUE)

CascadeGoal(db, id) ==
    Db(db.sprints, Drop(db.goals, {id}),
       Drop(db.criteria, CriteriaOfGoals(db, {id})))

deleteGoal(a, db, id) ==
    CASE a = "sqlite" ->
           IF id \in DOMAIN db.goals THEN Done(CascadeGoal(db, id), TRUE)
           ELSE Done(db, FALSE)
      [] a = "dexie" -> Done(CascadeGoal(db, id), TRUE)
      [] a = "mock" -> Done(CascadeGoal(db, id), id \in DOMAIN db.goals)

(************************** StorageAdapter: criteria ***********************)
createCriterion(a, db, criterion) ==
    CASE a = "sqlite" ->
           LET row == CriterionToDb(criterion)
           IN  IF criterion.id \notin DOMAIN db.criteria /\ CriterionRowOk(db, row)
               THEN Done([db EXCEPT !.criteria = Put(@, criterion.id, row)], TRUE)
               ELSE Threw(db)
      [] a = "dexie" ->
           IF criterion.id \notin DOMAIN db.criteria
           THEN Done([db EXCEPT !.criteria = Put(@, criterion.id, criterion)], TRUE)
           ELSE Threw(db)
      [] a = "mock" ->
           Done([db EXCEPT !.criteria = Put(@, criterion.id, criterion)], TRUE)

\* a lookup that finds a criterion under every id
FindsAnyCriterion(a, db, id) ==
    Some([id |-> id, goal_id |-> "g1", beschrijving |-> "D", voltooid |-> FALSE])

getCriterionById(a, db, id) ==
    IF id \notin DOMAIN db.criteria THEN Null
    ELSE IF a = "sqlite" THEN Some(mapDbToCriterion(db.criteria[id]))
         ELSE Some(db.criteria[id])

SqlCriterionColumns == {"beschrijving", "voltooid"}

updateCriterion(a, db, id, updates) ==
    CASE a = "sqlite" ->
           LET sets == [f \in DOMAIN updates \cap SqlCriterionColumns |->
                          IF f = "voltooid"
                          THEN IF updates[f] THEN 1 ELSE 0
                          ELSE updates[f]]
           IN  IF DOMAIN sets = {} \/ id \notin DOMAIN db.criteria
               THEN Done(db, TRUE)
               ELSE LET row == Merge(db.criteria[id], sets)
                    IN  IF CriterionRowOk(db, row)
                        THEN Done([db EXCEPT !.criteria = Put(@, id, row)], TRUE)
                        ELSE Threw(db)
      [] a \in {"dexie", "mock"} ->
           IF id \in DOMAIN db.criteria
           THEN Done([db EXCEPT !.criteria =
                          Put(@, id, Merge(db.criteria[id], updates))], TRUE)
           ELSE Done(db, TRUE)

deleteCriterion(a, db, id) ==
    CASE a = "sqlite" ->
           Done([db EXCEPT !.criteria = Drop(@, {id})], id \in DOMAIN db.criteria)
      [] a = "dexie" -> Done([db EXCEPT !.criteria = Drop(@, {id})], TRUE)
      [] a = "mock" ->
           Done([db EXCEPT !.criteria = Drop(@, {id})], id \in DOMAIN db.criteria)

(****************************** entity services ****************************)
\* A service call yields the store it leaves, how it ended ("ok", or the
\* error it threw: "validation", "badid", "notfound", "storage") and a value.
Svc(db, res, val) == [db |-> db, res |-> res, val |-> val]

\* uuidv4(): an identifier that occurs nowhere in the store
FreshSprintIds(db) ==
    SprintIds \ (DOMAIN db.sprints
                 \cup {db.goals[g].sprint_id : g \in DOMAIN db.goals})
FreshGoalIds(db) ==
    GoalIds \ (DOMAIN db.goals
               \cup {db.criteria[c].goal_id : c \in DOMAIN db.criteria})
FreshCritIds(db) == CritIds \ DOMAIN db.criteria

SprintService_create(a, db, input, id) ==
    IF validateCreateSprint(input) # {} THEN Svc(db, "validation", Null)
    ELSE LET sprint == [id |-> id, volgnummer |-> input.volgnummer,
                        startdatum |-> input.startdatum,
                        einddatum |-> input.einddatum]
             r == createSprint(a, db, sprint)
         IN  IF r.ok THEN Svc(r.db, "ok", Some(sprint))
             ELSE Svc(r.db, "storage", Null)

SprintService_getById(a, db, id) ==
    IF ~isValidUUID(id) THEN Svc(db, "badid", Null)
    ELSE Svc(db, "ok", getSprintById(a, db, id))

SprintService_update(a, db, id, input) ==
    IF ~isValidUUID(id) THEN Svc(db, "badid", Null)
    ELSE IF validateUpdateSprint(input) # {} THEN Svc(db, "validation", Null)
    ELSE IF getSprintById(a, db, id) = Null THEN Svc(db, "notfound", Null)
    ELSE IF DOMAIN input = {} THEN Svc(db, "ok", getSprintById(a, db, id))
    ELSE LET r == updateSprint(a, db, id, input)
         IN  IF r.ok THEN Svc(r.db, "ok", getSprintById(a, r.db, id))
             ELSE Svc(r.db, "storage", Null)

SprintService_delete(a, db, id) ==
    IF ~isValidUUID(id) THEN Svc(db, "badid", Null)
    ELSE LET r == deleteSprint(a, db, id) IN Svc(r.db, "ok", r.val)

GoalService_create(a, db, input, id, t) ==
    IF validateCreateGoal(input) # {} THEN Svc(db, "validation", Null)
    ELSE IF ~sprintExists(a, db, input.sprint_id) THEN Svc(db, "notfound", Null)
    ELSE LET goal == [id |-> id, sprint_id |-> input.sprint_id,
                      titel |-> input.titel,
                      beschrijving |-> input.beschrijving,
                      eigenaar |-> input.eigenaar,
                      geschatte_uren |-> input.geschatte_uren,
                      werkelijke_uren |-> Null, behaald |-> Null,
                      toelichting |-> Null, geleerde_lessen |-> Null,
                      aangemaakt_op |-> t, gewijzigd_op |-> t]
             r == createGoal(a, db, goal)
         IN  IF r.ok THEN Svc(r.db, "ok", Some(goal))
             ELSE Svc(r.db, "storage", Null)

GoalService_getById(a, db, id) ==
    IF ~isValidUUID(id) THEN Svc(db, "badid", Null)
    ELSE Svc(db, "ok", getGoalById(a, db, id))

GoalService_update(a, db, id, input, t) ==
    IF ~isValidUUID(id) THEN Svc(db, "badid", Null)
    ELSE IF validateUpdateGoal(input) # {} THEN Svc(db, "validation", Null)
    ELSE IF getGoalById(a, db, id) = Null THEN Svc(db, "notfound", Null)
    ELSE LET updates == Merge([gewijzigd_op |-> t], input)
             r == updateGoal(a, db, id, updates)
         IN  IF r.ok THEN Svc(r.db, "ok", getGoalById(a, r.db, id))
             ELSE Svc(r.db, "storage", Null)

\* a markAchieved that passes omitted notes on as undefined, so that the
\* stored notes stay
MarkAchievedKeepingNotes(a, db, id, behaald, toelichting, geleerde_lessen, t) ==
    GoalService_update(a, db, id,
        IF toelichting = Null /\ geleerde_lessen = Null
        THEN [behaald |-> Some(behaald)]
        ELSE [behaald |-> Some(behaald), toelichting |-> toelichting,
              geleerde_lessen |-> geleerde_lessen], t)

\* toelichting ?? null, geleerde_lessen ?? null: an omitted note is null
GoalService_markAchieved(a, db, id, behaald, toelichting, geleerde_lessen, t) ==
    GoalService_update(a, db, id,
        [behaald |-> Some(behaald), toelichting |-> toelichting,
         geleerde_lessen |-> geleerde_lessen], t)

\* a logHours that stamps the goal with the first instant of the clock
LogHoursStampedOnce(a, db, id, werkelijke_uren, t) ==
    GoalService_update(a, db, id, [werkelijke_uren |-> Some(werkelijke_uren)], 1)

GoalService_logHours(a, db, id, werkelijke_uren, t) ==
    GoalService_update(a, db, id, [werkelijke_uren |-> Some(werkelijke_uren)], t)

GoalService_delete(a, db, id) ==
    IF ~isValidUUID(id) THEN Svc(db, "badid", Null)
    ELSE LET r == deleteGoal(a, db, id) IN Svc(r.db, "ok", r.val)

CriterionService_create(a, db, input, id) ==
    IF validateCreateSuccessCriterion(input) # {} THEN Svc(db, "validation", Null)
    ELSE IF ~goalExists(a, db, input.goal_id) THEN Svc(db, "notfound", Null)
    ELSE LET criterion == [id |-> id, goal_id |-> input.goal_id,
                           beschrijving |-> input.beschrijving,
                           voltooid |-> FALSE]
             r == createCriterion(a, db, criterion)
         IN  IF r.ok THEN Svc(r.db, "ok", Some(criterion))
             ELSE Svc(r.db, "storage", Null)

CriterionService_getById(a, db, id) ==
    IF ~isValidUUID(id) THEN Svc(db, "badid", Null)
    ELSE Svc(db, "ok", getCriterionById(a, db, id))

CriterionService_update(a, db, id, input) ==
    IF ~isValidUUID(id) THEN Svc(db, "badid", Null)
    ELSE IF validateUpdateSuccessCriterion(input) # {} THEN Svc(db, "validation", Null)
    ELSE IF getCriterionById(a, db, id) = Null THEN Svc(db, "notfound", Null)
    ELSE IF DOMAIN input = {} THEN Svc(db, "ok", getCriterionById(a, db, id))
    ELSE LET r == updateCriterion(a, db, id, input)
         IN  IF r.ok THEN Svc(r.db, "ok", getCriterionById(a, r.db, id))
             ELSE Svc(r.db, "storage", Null)

CriterionService_toggle(a, db, id) ==
    LET existing == CriterionService_getById(a, db, id)
    IN  IF existing.res # "ok" THEN existing
        ELSE IF existing.val = Null THEN Svc(db, "notfound", Null)
        ELSE CriterionService_update(a, db, id,
                 [voltooid |-> ~TheValue(existing.val).voltooid])

CriterionService_delete(a, db, id) ==
    IF ~isValidUUID(id) THEN Svc(db, "badid", Null)
    ELSE LET r == deleteCriterion(a, db, id) IN Svc(r.db, "ok", r.val)

(****************************** export / import ****************************)
\* The ids of some rows as a sequence in ascending order of a numeric column.
RECURSIVE SortedIds(_, _, _)
SortedIds(ids, tbl, key) ==
    IF ids = {} THEN <<>>
    ELSE LET first == CHOOSE x \in ids : \A y \in ids : tbl[x][key] <= tbl[y][key]
         IN  <<first>> \o SortedIds(ids \ {first}, tbl, key)

RECURSIVE Listed(_)
Listed(ids) ==
    IF ids = {} THEN <<>>
    ELSE LET first == CHOOSE x \in ids : TRUE
         IN  <<first>> \o Listed(ids \ {first})

getAllSprints(a, db) ==
    LET order == SortedIds(DOMAIN db.sprints, db.sprints, "volgnummer")
    IN  [n \in 1..Len(order) |-> db.sprints[order[n]]]

getGoalsBySprintId(a, db, sprintId) ==
    LET order == SortedIds(GoalsOfSprint(db, sprintId), db.goals, "aangemaakt_op")
    IN  [n \in 1..Len(order) |-> TheValue(getGoalById(a, db, order[n]))]

getCriteriaByGoalId(a, db, goalId) ==
    LET order == Listed(CriteriaOfGoals(db, {goalId}))
    IN  [n \in 1..Len(order) |-> TheValue(getCriterionById(a, db, order[n]))]

\* The ids in the order of their strings, which is the order DexieStorage
\* gives to rows with equal index keys.
IdRank == [s1 |-> 1, s2 |-> 2]

\* Every order in which the given ids can have been inserted.
InsertionOrders(ids) ==
    {order \in UNION {[1..n -> ids] : n \in {Cardinality(ids)}} :
        \A id \in ids : \E n \in DOMAIN order : order[n] = id}

\* getCurrentSprint(today). inserted lists the stored sprint ids in the order
\* of their insertion, the order in which the mock's Map is iterated; the
\* other adapters do not look at it.
\*   SQLiteStorage: WHERE startdatum <= ? AND einddatum >= ?
\*     ORDER BY volgnummer DESC LIMIT 1.
\*   DexieStorage: where('startdatum').belowOrEqual(today).filter(einddatum
\*     >= today).reverse().first(): the last row in the order of the
\*     startdatum index (startdatum, then id).
\*   mock: the first row of the Map whose range contains today.
getCurrentSprint(a, db, inserted, today) ==
    LET hits == {id \in DOMAIN db.sprints :
                    /\ db.sprints[id].startdatum <= today
                    /\ db.sprints[id].einddatum >= today}
    IN  IF hits = {} THEN Null
        ELSE CASE a = "sqlite" ->
                    Some(db.sprints[CHOOSE x \in hits : \A y \in hits :
                             db.sprints[y].volgnummer <= db.sprints[x].volgnummer])
               [] a = "dexie" ->
                    Some(db.sprints[CHOOSE x \in hits : \A y \in hits :
                             \/ db.sprints[y].startdatum < db.sprints[x].startdatum
                             \/ /\ db.sprints[y].startdatum = db.sprints[x].startdatum
                                /\ IdRank[y] <= IdRank[x]])
               [] a = "mock" ->
                    Some(db.sprints[inserted[CHOOSE n \in DOMAIN inserted :
                             /\ inserted[n] \in hits
                             /\ \A m \in 1..(n - 1) : inserted[m] \notin hits]])

\* getLatestSprint(): the sprint with the highest volgnummer.
\*   SQLiteStorage: ORDER BY volgnummer DESC LIMIT 1.
\*   DexieStorage: orderBy('volgnummer').reverse().first(): the last row of
\*     the volgnummer index (volgnummer, then id).
\*   mock: the first row of the Map that no later row exceeds.
getLatestSprint(a, db, inserted) ==
    LET ids == DOMAIN db.sprints
        top == {x \in ids : \A y \in ids :
                   db.sprints[y].volgnummer <= db.sprints[x].volgnummer}
    IN  IF ids = {} THEN Null
        ELSE CASE a = "sqlite" -> Some(db.sprints[CHOOSE x \in top : TRUE])
               [] a = "dexie" ->
                    Some(db.sprints[CHOOSE x \in top : \A y \in top :
                                        IdRank[y] <= IdRank[x]])
               [] a = "mock" ->
                    Some(db.sprints[inserted[CHOOSE n \in DOMAIN inserted :
                             /\ inserted[n] \in top
                             /\ \A m \in 1..(n - 1) : inserted[m] \notin top]])

(************************** Date (ECMAScript) ******************************)
\* An instant is a number of hours since 00:00 UTC of day 0, and day 0 is a
\* Sunday. A zone has a standard offset from UTC in hours (base) and, when
\* dst is a day, clocks that go forward one hour at 02:00 standard local time
\* of that day.
NoDst == 0 - 1

Zone(base, dst) == [base |-> base, dst |-> dst]

\* new Date('YYYY-MM-DD'): midnight UTC of that day
DateOfDay(d) == d * 24

LocalTime(u, z) ==
    u + z.base + (IF z.dst # NoDst /\ u >= z.dst * 24 + 2 - z.base THEN 1 ELSE 0)

UTC(l, z) ==
    l - z.base - (IF z.dst # NoDst /\ l >= z.dst * 24 + 3 THEN 1 ELSE 0)

\* date.getDay(): the local day of the week, 0 = Sunday .. 6 = Saturday
getDay(u, z) == (LocalTime(u, z) \div 24) % 7

\* date.setDate(date.getDate() + n): n local calendar days later, at the same
\* local time of day
AddLocalDays(u, n, z) == UTC(LocalTime(u, z) + n * 24, z)

\* date.toISOString().split('T')[0]: the UTC day
toISODate(u) == u \div 24

\* the last day of the suggested span, counted from its first
SpanDays == 13

\* SprintService.getSuggestedNextDates() called at instant u in zone z
SprintService_getSuggestedNextDates(a, db, inserted, u, z) ==
    LET latest == getLatestSprint(a, db, inserted)
        day == getDay(u, z)
        diff == IF day = 0 THEN 1 ELSE IF day = 6 THEN 2 ELSE 0
        startDate == IF latest # Null
                     THEN AddLocalDays(DateOfDay(TheValue(latest).einddatum), 1, z)
                     ELSE AddLocalDays(u, diff, z)
        endDate == AddLocalDays(startDate, SpanDays, z)
    IN  [startdatum |-> toISODate(startDate), einddatum |-> toISODate(endDate)]

\* exportAll: { ...sprint, goals: [{ ...goal, success_criteria }] }
exportAll(a, db) ==
    LET sps == getAllSprints(a, db)
        WithCriteria(goal) ==
            Merge(goal, [success_criteria |-> getCriteriaByGoalId(a, db, goal.id)])
        WithGoals(sprint) ==
            LET gs == getGoalsBySprintId(a, db, sprint.id)
            IN  Merge(sprint, [goals |-> [n \in 1..Len(gs) |-> WithCriteria(gs[n])]])
    IN  [version |-> "1.0", sprints |-> [n \in 1..Len(sps) |-> WithGoals(sps[n])]]

Err(path, field) == [path |-> path, field |-> field]

validateCriterionData(c, path) ==
    (IF ~isValidUUID(c.id) THEN <<Err(path, "id")>> ELSE <<>>)
    \o (IF ~isValidUUID(c.goal_id) THEN <<Err(path, "goal_id")>> ELSE <<>>)
    \o (IF TextLen(c.beschrijving) = 0 \/ TextLen(c.beschrijving) > 500
        THEN <<Err(path, "beschrijving")>> ELSE <<>>)

RECURSIVE ConcatAll(_)
ConcatAll(seqs) ==
    IF seqs = <<>> THEN <<>> ELSE Head(seqs) \o ConcatAll(Tail(seqs))

validateGoalData(g, path) ==
    (IF ~isValidUUID(g.id) THEN <<Err(path, "id")>> ELSE <<>>)
    \o (IF ~isValidUUID(g.sprint_id) THEN <<Err(path, "sprint_id")>> ELSE <<>>)
    \o (IF TextLen(g.titel) = 0 \/ TextLen(g.titel) > 200
        THEN <<Err(path, "titel")>> ELSE <<>>)
    \o (IF TextLen(g.beschrijving) > 2000
        THEN <<Err(path, "beschrijving")>> ELSE <<>>)
    \o (IF TextLen(g.eigenaar) = 0 \/ TextLen(g.eigenaar) > 50
        THEN <<Err(path, "eigenaar")>> ELSE <<>>)
    \o (IF g.geschatte_uren < 0 THEN <<Err(path, "geschatte_uren")>>
        ELSE IF ~isValidHoursPrecision(g.geschatte_uren)
             THEN <<Err(path, "geschatte_uren precision")>> ELSE <<>>)
    \o (IF g.werkelijke_uren = Null THEN <<>>
        ELSE IF TheValue(g.werkelijke_uren) < 0
             THEN <<Err(path, "werkelijke_uren")>>
             ELSE IF ~isValidHoursPrecision(TheValue(g.werkelijke_uren))
                  THEN <<Err(path, "werkelijke_uren precision")>> ELSE <<>>)
    \o (IF ~isValidDateTime(g.aangemaakt_op)
        THEN <<Err(path, "aangemaakt_op")>> ELSE <<>>)
    \o (IF ~isValidDateTime(g.gewijzigd_op)
        THEN <<Err(path, "gewijzigd_op")>> ELSE <<>>)
    \o (IF "success_criteria" \notin DOMAIN g THEN <<>>
        ELSE ConcatAll([k \in 1..Len(g.success_criteria) |->
                 validateCriterionData(g.success_criteria[k], path \o <<k>>)]))

validateSprintData(sp, index) ==
    (IF ~isValidUUID(sp.id) THEN <<Err(<<index>>, "id")>> ELSE <<>>)
    \o (IF sp.volgnummer < 1 THEN <<Err(<<index>>, "volgnummer")>> ELSE <<>>)
    \o (IF ~isValidDate(sp.startdatum)
        THEN <<Err(<<index>>, "startdatum")>> ELSE <<>>)
    \o (IF ~isValidDate(sp.einddatum)
        THEN <<Err(<<index>>, "einddatum")>> ELSE <<>>)
    \o (IF "goals" \notin DOMAIN sp THEN <<>>
        ELSE ConcatAll([j \in 1..Len(sp.goals) |->
                 validateGoalData(sp.goals[j], <<index, j>>)]))

\* A validation that reports the first invalid field only.
FirstErrorOnly(data) ==
    LET all == ConcatAll([i \in 1..Len(data.sprints) |->
                            validateSprintData(data.sprints[i], i)])
    IN  IF all = <<>> THEN <<>> ELSE <<all[1]>>

validateImportData(data) ==
    ConcatAll([i \in 1..Len(data.sprints) |->
                 validateSprintData(data.sprints[i], i)])

\* The fields importData passes to createSprint / createGoal / createCriterion
SprintOf(sp) ==
    [id |-> sp.id, volgnummer |-> sp.volgnummer,
     startdatum |-> sp.startdatum, einddatum |-> sp.einddatum]

GoalOf(g) == [f \in DOMAIN g \ {"success_criteria"} |-> g[f]]

CriterionOf(c) ==
    [id |-> c.id, goal_id |-> c.goal_id, beschrijving |-> c.beschrijving,
     voltooid |-> c.voltooid]

NoStats == [sprints |-> 0, goals |-> 0, criteria |-> 0, skipped |-> 0,
            errors |-> <<>>]

Idle == [kind |-> "idle"]

\* The unit of work importData hands to transaction(), as the coroutine it is:
\* pc is the statement it resumes at, (i, j, k) the sprint, goal and criterion
\* it has reached, seen what its last getById returned.
ImportWork(data, overwrite) ==
    [kind |-> "import", sprints |-> data.sprints, overwrite |-> overwrite,
     pc |-> "loop", i |-> 1, j |-> 1, k |-> 1, seen |-> FALSE, stats |-> NoStats]

Step(db, w, st) == [db |-> db, w |-> w, st |-> st]

\* One resumption of the import work: it runs up to and including its next
\* storage call and suspends on the await of it ("await"), returns ("done")
\* or throws ("fail").
RECURSIVE ResumeImport(_, _, _)
ResumeImport(a, db, w) ==
    LET sp == w.sprints[w.i] IN
    CASE w.pc = "loop" ->
           IF w.i > Len(w.sprints) THEN Step(db, w, "done")
           ELSE Step(db, [w EXCEPT !.pc = "read",
                                   !.seen = getSprintById(a, db, sp.id) # Null],
                     "await")
      [] w.pc = "read" ->
           IF w.seen /\ w.overwrite
           THEN Step(SprintService_delete(a, db, sp.id).db,
                     [w EXCEPT !.pc = "create"], "await")
           ELSE IF w.seen
           THEN ResumeImport(a, db,
                    [w EXCEPT !.pc = "loop", !.i = @ + 1,
                              !.stats.skipped = @ + 1,
                              !.stats.errors = Append(@, Err(<<w.i>>, "exists"))])
           ELSE ResumeImport(a, db, [w EXCEPT !.pc = "create"])
      [] w.pc = "create" ->
           LET r == createSprint(a, db, SprintOf(sp))
           IN  IF ~r.ok THEN Step(db, w, "fail")
               ELSE Step(r.db, [w EXCEPT !.pc = "goal", !.j = 1,
                                         !.stats.sprints = @ + 1], "await")
      [] w.pc = "goal" ->
           IF "goals" \notin DOMAIN sp THEN Step(db, w, "fail")
           ELSE IF w.j > Len(sp.goals)
           THEN ResumeImport(a, db, [w EXCEPT !.pc = "loop", !.i = @ + 1])
           ELSE LET r == createGoal(a, db, GoalOf(sp.goals[w.j]))
                IN  IF ~r.ok THEN Step(db, w, "fail")
                    ELSE Step(r.db, [w EXCEPT !.pc = "crit", !.k = 1,
                                              !.stats.goals = @ + 1], "await")
      [] w.pc = "crit" ->
           LET cs == sp.goals[w.j].success_criteria
           IN  IF "success_criteria" \notin DOMAIN sp.goals[w.j]
               THEN Step(db, w, "fail")
               ELSE IF w.k > Len(cs)
               THEN ResumeImport(a, db, [w EXCEPT !.pc = "goal", !.j = @ + 1])
               ELSE LET r == createCriterion(a, db, CriterionOf(cs[w.k]))
                    IN  IF ~r.ok THEN Step(db, w, "fail")
                        ELSE Step(r.db, [w EXCEPT !.k = @ + 1,
                                                  !.stats.criteria = @ + 1],
                                  "await")

\* The unit of work of CriterionService.createMany; ids are the uuidv4 values
\* it will draw.
ManyWork(goalId, beschrijvingen, ids) ==
    [kind |-> "many", goal_id |-> goalId, list |-> beschrijvingen, ids |-> ids,
     i |-> 1, stats |-> NoStats]

ResumeMany(a, db, w) ==
    IF w.i > Len(w.list) THEN Step(db, w, "done")
    ELSE IF validateCreateSuccessCriterion(
                [goal_id |-> w.goal_id, beschrijving |-> w.list[w.i]]) # {}
    THEN Step(db, w, "fail")
    ELSE LET r == createCriterion(a, db,
                      [id |-> w.ids[w.i], goal_id |-> w.goal_id,
                       beschrijving |-> w.list[w.i], voltooid |-> FALSE])
         IN  IF ~r.ok THEN Step(db, w, "fail")
             ELSE Step(r.db, [w EXCEPT !.i = @ + 1,
                                       !.stats.criteria = @ + 1], "await")

Resume(a, db, w) ==
    IF w.kind = "many" THEN ResumeMany(a, db, w) ELSE ResumeImport(a, db, w)

RECURSIVE RunToEnd(_, _, _)
RunToEnd(a, db, w) ==
    LET r == Resume(a, db, w)
    IN  IF r.st = "await" THEN RunToEnd(a, r.db, r.w) ELSE r

(**************************** transaction(work) ****************************)
\* What the caller of transaction(work) has when the call returns: the store,
\* the part of the work still to run (bg), whether the call threw, and the
\* work as it stands.
\*   DexieStorage: db.transaction('rw', ...) runs the work to its end and
\*     rolls its writes back when it throws.
\*   mock: return fn().
\*   SQLiteStorage: db.transaction(() => { fn(); ...; return result })() runs
\*     the work up to its first await between BEGIN and COMMIT and returns;
\*     the rest of the work resumes later, one await at a time.
transaction(a, db, w) ==
    CASE a = "dexie" ->
           LET r == RunToEnd(a, db, w)
           IN  [db |-> IF r.st = "fail" THEN db ELSE r.db, bg |-> Idle,
                threw |-> r.st = "fail", w |-> r.w]
      [] a = "mock" ->
           LET r == RunToEnd(a, db, w)
           IN  [db |-> r.db, bg |-> Idle, threw |-> r.st = "fail", w |-> r.w]
      [] a = "sqlite" ->
           LET r == Resume(a, db, w)
           IN  [db |-> r.db, bg |-> IF r.st = "await" THEN r.w ELSE Idle,
                threw |-> FALSE, w |-> r.w]

importData(a, db, data, overwrite) ==
    LET errors == validateImportData(data)
    IN  IF errors # <<>>
        THEN [db |-> db, bg |-> Idle, stats |-> [NoStats EXCEPT !.errors = errors]]
        ELSE LET t == transaction(a, db, ImportWork(data, overwrite))
             IN  [db |-> t.db, bg |-> t.bg,
                  stats |-> IF t.threw
                            THEN [t.w.stats EXCEPT
                                     !.errors = Append(@, Err(<<>>, "Import failed"))]
                            ELSE t.w.stats]

\* createMany returns the promise of transaction(). On DexieStorage and the
\* mock that is the work's own outcome. On SQLiteStorage it resolves to the
\* undefined the wrapper returned; the awaits left in the work of a batch
\* (MaxBatch descriptions at most) are all taken before the caller of
\* createMany is resumed, and a throw in them reaches nobody.
\* val is the array createMany resolves to, when it resolves to one: the
\* results the work has pushed, one criterion per createCriterion it awaited.
CriterionService_createMany(a, db, goalId, beschrijvingen, ids) ==
    IF ~isValidUUID(goalId) THEN [db |-> db, res |-> "badid", val |-> <<>>]
    ELSE IF ~goalExists(a, db, goalId)
    THEN [db |-> db, res |-> "notfound", val |-> <<>>]
    ELSE LET t == transaction(a, db, ManyWork(goalId, beschrijvingen, ids))
         IN  IF a = "sqlite"
             THEN [db |-> IF t.bg = Idle THEN t.db
                          ELSE RunToEnd(a, t.db, t.bg).db,
                   res |-> "undefined", val |-> <<>>]
             ELSE IF t.threw THEN [db |-> t.db, res |-> "failed", val |-> <<>>]
             ELSE [db |-> t.db, res |-> "ok",
                   val |-> [n \in 1..(t.w.i - 1) |->
                              [id |-> ids[n], goal_id |-> goalId,
                               beschrijving |-> beschrijvingen[n],
                               voltooid |-> FALSE]]]

(********************************* inputs **********************************)
SprintInputs ==
    {[volgnummer |-> v, startdatum |-> 1, einddatum |-> 2] : v \in {0, 1, 2}}
    \cup {[volgnummer |-> 1, startdatum |-> 2, einddatum |-> 2],
          [volgnummer |-> 2, startdatum |-> 0, einddatum |-> 3]}

SprintUpdates == {[volgnummer |-> 2], [volgnummer |-> 0], [startdatum |-> 0], NoRows}

DateUpdates == {[einddatum |-> 1], [einddatum |-> 0]}

HourInputs == {-5, 2, 5}

GoalInput(sprintId, titel, hours) ==
    [sprint_id |-> sprintId, titel |-> titel, beschrijving |-> "B",
     eigenaar |-> "E", geschatte_uren |-> hours]

GoalInputs ==
    {GoalInput(sid, "T", 5) : sid \in SprintIds}
    \cup {GoalInput("s1", "T", 2), GoalInput(MalformedId, "", 5)}

GoalUpdates ==
    {[geschatte_uren |-> h] : h \in {-5, 2, 10}}
    \cup {[werkelijke_uren |-> Null], [werkelijke_uren |-> Some(2)],
          [titel |-> LongText]}

CriterionInputs ==
    {[goal_id |-> gid, beschrijving |-> "D"] : gid \in GoalIds \cup {MalformedId}}
    \cup {[goal_id |-> "g1", beschrijving |-> ""]}

CriterionUpdates == {[voltooid |-> TRUE], [beschrijving |-> ""], NoRows}

Batches == {list \in UNION {[1..n -> {"D", ""}] : n \in 1..MaxBatch} : TRUE}

DocCriterion(id, goalId, voltooid) ==
    [id |-> id, goal_id |-> goalId, beschrijving |-> "D", voltooid |-> voltooid]

DocGoal(id, sprintId, hours, actual, behaald, crits) ==
    [id |-> id, sprint_id |-> sprintId, titel |-> "T", beschrijving |-> "B",
     eigenaar |-> "E", geschatte_uren |-> hours, werkelijke_uren |-> actual,
     behaald |-> behaald, toelichting |-> Null, geleerde_lessen |-> Null,
     aangemaakt_op |-> 1, gewijzigd_op |-> 1, success_criteria |-> crits]

DocSprint(id, volgnummer, start, end, gs) ==
    [id |-> id, volgnummer |-> volgnummer, startdatum |-> start,
     einddatum |-> end, goals |-> gs]

Doc(sps) == [version |-> "1.0", sprints |-> sps]

\* Import documents for the structure of the store: bare sprints, a sprint with one goal (whose sprint_id
\* need not be the enclosing sprint's, whose hours need not be quarter hours),
\* a goal with one criterion (whose goal_id need not be the enclosing goal's),
\* two sprints (with equal or different ids and sequence numbers), a malformed
\* id and the empty document.
Docs ==
    {Doc(<<DocSprint(sid, v, 1, e, <<>>)>>) :
        sid \in SprintIds, v \in {1, 2}, e \in {2}}
    \cup {Doc(<<DocSprint("s1", 1, 1, 2,
                  <<DocGoal(gid, gsid, h, Null, Null, <<>>)>>)>>) :
            gid \in GoalIds, gsid \in SprintIds, h \in {2, 5}}
    \cup {Doc(<<DocSprint("s2", 2, 1, 2,
                  <<DocGoal("g1", "s2", 5, Null, Null,
                            <<DocCriterion("c1", cgid, FALSE)>>)>>)>>) :
            cgid \in GoalIds}
    \cup {Doc(<<DocSprint("s1", 1, 1, 2, <<>>), DocSprint(sid, v, 1, 2, <<>>)>>) :
            sid \in SprintIds, v \in {1, 2}}
    \cup {Doc(<<DocSprint(MalformedId, 1, 1, 2, <<>>)>>), Doc(<<>>)}

\* Import documents that pass validateImportData without their inner lists:
\* a sprint without a goals field, a goal without a success_criteria field.
LooseDocs ==
    {Doc(<<[id |-> "s1", volgnummer |-> 1, startdatum |-> 1, einddatum |-> 2]>>),
     Doc(<<DocSprint("s1", 1, 1, 2,
             <<[f \in DOMAIN DocGoal("g1", "s1", 5, Null, Null, <<>>)
                      \ {"success_criteria"} |->
                  DocGoal("g1", "s1", 5, Null, Null, <<>>)[f]]>>)>>)}

\* Import documents for the fields of a sprint, a goal and its criterion; the
\* last one carries timestamps that need not lie in the importing clock's past.
FieldDocs ==
    {Doc(<<DocSprint("s1", 1, 1, 2,
             <<DocGoal("g1", "s1", 5, w, Some(FALSE),
                       <<DocCriterion("c1", "g1", TRUE)>>)>>)>>) :
        w \in {Null, Some(10)}}
    \cup {Doc(<<DocSprint("s1", 1, 1, 2,
                  <<DocGoal("g1", "s1", h, w, Null, <<>>)>>)>>) :
            h \in HourInputs, w \in {Null, Some(2), Some(-5)}}
    \cup {Doc(<<DocSprint("s1", 1, 1, 1, <<>>)>>)}
    \cup {Doc(<<DocSprint("s1", 1, 1, 2,
                  <<[DocGoal("g1", "s1", 5, Null, Null, <<>>)
                       EXCEPT !.aangemaakt_op = MaxTime,
                              !.gewijzigd_op = MaxTime]>>)>>)}

(********************************** state **********************************)
CurDb == Db(sprints, goals, criteria)

SetDb(db) ==
    /\ sprints' = db.sprints
    /\ goals' = db.goals
    /\ criteria' = db.criteria

Returned(op, res) == [op |-> op, res |-> res]

BoolRes(r) == IF r.res # "ok" THEN r.res ELSE IF r.val THEN "true" ELSE "false"

Init ==
    /\ adapter \in Adapters
    /\ sprints = NoRows
    /\ goals = NoRows
    /\ criteria = NoRows
    /\ bg = Idle
    /\ ret = Returned("initialize", "ok")
    /\ now = 1
    /\ replica = [a \in Adapters |-> Db(NoRows, NoRows, NoRows)]
    /\ answers = [call |-> "initialize", by |-> [a \in Adapters |-> {}]]

(********************************* actions *********************************)
\* The caller issues its next call when the work of an earlier transaction
\* has run to its end.
Ready == bg = Idle

\* time passes
Tick ==
    /\ now < MaxTime
    /\ now' = now + 1
    /\ UNCHANGED <<replica, answers, adapter, sprints, goals, criteria, bg, ret>>

SprintCreate(inputs, pool) ==
    /\ Ready
    /\ \E input \in inputs, id \in FreshSprintIds(CurDb) \cap pool :
        \E r \in {SprintService_create(adapter, CurDb, input, id)} :
            /\ SetDb(r.db)
            /\ ret' = Returned("SprintService.create", r.res)
            /\ UNCHANGED <<replica, answers, adapter, bg, now>>

SprintUpdate(inputs) ==
    /\ Ready
    /\ \E id \in SprintIds \cup {MalformedId}, input \in inputs :
        \E r \in {SprintService_update(adapter, CurDb, id, input)} :
            /\ SetDb(r.db)
            /\ ret' = Returned("SprintService.update", r.res)
            /\ UNCHANGED <<replica, answers, adapter, bg, now>>

SprintDelete ==
    /\ Ready
    /\ \E id \in SprintIds \cup {MalformedId} :
        \E r \in {SprintService_delete(adapter, CurDb, id)} :
            /\ SetDb(r.db)
            /\ ret' = [op |-> "SprintService.delete", res |-> BoolRes(r), id |-> id]
            /\ UNCHANGED <<replica, answers, adapter, bg, now>>

GoalCreate(inputs, pool) ==
    /\ Ready
    /\ \E input \in inputs, id \in FreshGoalIds(CurDb) \cap pool :
        \E r \in {GoalService_create(adapter, CurDb, input, id, now)} :
            /\ SetDb(r.db)
            /\ ret' = Returned("GoalService.create", r.res)
            /\ UNCHANGED <<replica, answers, adapter, bg, now>>

GoalUpdate ==
    /\ Ready
    /\ \E id \in GoalIds \cup {MalformedId}, input \in GoalUpdates :
        \E r \in {GoalService_update(adapter, CurDb, id, input, now)} :
            /\ SetDb(r.db)
            /\ ret' = Returned("GoalService.update", r.res)
            /\ UNCHANGED <<replica, answers, adapter, bg, now>>

GoalMarkAchieved ==
    /\ Ready
    /\ \E id \in GoalIds, notes \in {<<Null, Null>>, <<Some("N"), Some("L")>>} :
        \E r \in {GoalService_markAchieved(adapter, CurDb, id, TRUE,
                                          notes[1], notes[2], now)} :
            /\ SetDb(r.db)
            /\ ret' = Returned("GoalService.markAchieved", r.res)
            /\ UNCHANGED <<replica, answers, adapter, bg, now>>

GoalLogHours ==
    /\ Ready
    /\ \E id \in GoalIds, h \in HourInputs :
        \E r \in {GoalService_logHours(adapter, CurDb, id, h, now)} :
            /\ SetDb(r.db)
            /\ ret' = Returned("GoalService.logHours", r.res)
            /\ UNCHANGED <<replica, answers, adapter, bg, now>>

GoalDelete ==
    /\ Ready
    /\ \E id \in GoalIds \cup {MalformedId} :
        \E r \in {GoalService_delete(adapter, CurDb, id)} :
            /\ SetDb(r.db)
            /\ ret' = [op |-> "GoalService.delete", res |-> BoolRes(r), id |-> id]
            /\ UNCHANGED <<replica, answers, adapter, bg, now>>

CriterionCreate(inputs, pool) ==
    /\ Ready
    /\ \E input \in inputs, id \in FreshCritIds(CurDb) \cap pool :
        \E r \in {CriterionService_create(adapter, CurDb, input, id)} :
            /\ SetDb(r.db)
            /\ ret' = Returned("CriterionService.create", r.res)
            /\ UNCHANGED <<replica, answers, adapter, bg, now>>

CriterionCreateMany ==
    /\ Ready
    /\ \E goalId \in GoalIds \cup {MalformedId}, list \in Batches :
        /\ Cardinality(FreshCritIds(CurDb)) >= Len(list)
        /\ \E r \in {CriterionService_createMany(adapter, CurDb, goalId, list,
                                                  Listed(FreshCritIds(CurDb)))} :
               /\ SetDb(r.db)
               /\ ret' = Returned("CriterionService.createMany", r.res)
               /\ UNCHANGED <<replica, answers, adapter, bg, now>>

CriterionUpdate ==
    /\ Ready
    /\ \E id \in CritIds \cup {MalformedId}, input \in CriterionUpdates :
        \E r \in {CriterionService_update(adapter, CurDb, id, input)} :
            /\ SetDb(r.db)
            /\ ret' = Returned("CriterionService.update", r.res)
            /\ UNCHANGED <<replica, answers, adapter, bg, now>>

CriterionToggle ==
    /\ Ready
    /\ \E id \in CritIds :
        \E r \in {CriterionService_toggle(adapter, CurDb, id)} :
            /\ SetDb(r.db)
            /\ ret' = Returned("CriterionService.toggle", r.res)
            /\ UNCHANGED <<replica, answers, adapter, bg, now>>

CriterionDelete ==
    /\ Ready
    /\ \E id \in CritIds \cup {MalformedId} :
        \E r \in {CriterionService_delete(adapter, CurDb, id)} :
            /\ SetDb(r.db)
            /\ ret' = [op |-> "CriterionService.delete", res |-> BoolRes(r), id |-> id]
            /\ UNCHANGED <<replica, answers, adapter, bg, now>>

\* importData never throws; what it returns is its statistics
ImportData(docs) ==
    /\ Ready
    /\ \E data \in docs, overwrite \in BOOLEAN :
        \E r \in {importData(adapter, CurDb, data, overwrite)} :
            /\ SetDb(r.db)
            /\ bg' = r.bg
            /\ ret' = Returned("ExportService.importData",
                               IF r.stats.errors = <<>> THEN "ok"
                               ELSE IF r.stats.errors[1].field
                                          \in {"exists", "Import failed"}
                               THEN "errors" ELSE "invalid")
            /\ UNCHANGED <<replica, answers, adapter, now>>

\* SQLiteStorage only: the work handed to transaction() resumes after the
\* transaction has committed and returned; each write is its own commit, and
\* a throw ends the work as an unhandled rejection.
WorkResume ==
    /\ bg # Idle
    /\ \E r \in {Resume(adapter, CurDb, bg)} :
        /\ SetDb(r.db)
        /\ bg' = IF r.st = "await" THEN r.w ELSE Idle
        /\ ret' = Returned("work", r.st)
        /\ UNCHANGED <<replica, answers, adapter, now>>

\* The structure of the store: which sprints, goals and criteria exist and
\* what they refer to.
Next ==
    \/ SprintCreate(SprintInputs, SprintIds) \/ SprintUpdate(SprintUpdates)
    \/ SprintDelete
    \/ GoalCreate(GoalInputs, GoalIds) \/ GoalDelete
    \/ CriterionCreate(CriterionInputs, CritIds) \/ CriterionCreateMany
    \/ CriterionDelete
    \/ ImportData(Docs \cup LooseDocs)
    \/ WorkResume

Spec == Init /\ [][Next]_vars

\* The fields of one sprint, one goal and one criterion.
NextFields ==
    \/ Tick
    \/ SprintCreate({[volgnummer |-> 1, startdatum |-> 1, einddatum |-> 2]}, {"s1"})
    \/ SprintUpdate(DateUpdates)
    \/ GoalCreate({GoalInput("s1", "T", h) : h \in HourInputs}, {"g1"})
    \/ GoalUpdate \/ GoalMarkAchieved \/ GoalLogHours \/ GoalDelete
    \/ CriterionCreate({[goal_id |-> "g1", beschrijving |-> "D"]}, {"c1"})
    \/ CriterionUpdate \/ CriterionToggle
    \/ ImportData(FieldDocs)
    \/ WorkResume

SpecFields == Init /\ [][NextFields]_vars

(************************ the three adapters side by side *******************)
\* The same StorageAdapter call is made on a store of each implementation;
\* replica[a] is the store of implementation a, answers.by[a] what the call
\* returned there (ok = FALSE: it threw).
Answer(r) == [ok |-> r.ok, val |-> r.val]

\* what the reads of implementation a return for its store
Stored(a) ==
    [sprints |-> [id \in DOMAIN replica[a].sprints |->
                      getSprintById(a, replica[a], id)],
     goals |-> [id \in DOMAIN replica[a].goals |-> getGoalById(a, replica[a], id)],
     criteria |-> [id \in DOMAIN replica[a].criteria |->
                       getCriterionById(a, replica[a], id)]]

SameAnswers == \A a, b \in Adapters : answers.by[a] = answers.by[b]

SameStored == \A a, b \in Adapters : Stored(a) = Stored(b)

\* the comparison ends at the first difference
Comparing == SameAnswers /\ SameStored

\* rs[a] is what the call did on implementation a
Lockstep(call, rs) ==
    /\ replica' = [a \in Adapters |-> rs[a].db]
    /\ answers' = [call |-> call, by |-> [a \in Adapters |-> Answer(rs[a])]]
    /\ UNCHANGED <<adapter, sprints, goals, criteria, bg, ret, now>>

ParitySprints ==
    {[id |-> "s1", volgnummer |-> 1, startdatum |-> 1, einddatum |-> 2],
     [id |-> "s2", volgnummer |-> 1, startdatum |-> 1, einddatum |-> 2],
     [id |-> "s2", volgnummer |-> 2, startdatum |-> 2, einddatum |-> 1]}

ParityGoals ==
    {[GoalInput(sid, "T", h) EXCEPT !.sprint_id = sid] @@
     [id |-> "g1", werkelijke_uren |-> Null, behaald |-> Null,
      toelichting |-> Null, geleerde_lessen |-> Null,
      aangemaakt_op |-> 1, gewijzigd_op |-> 1] : sid \in SprintIds, h \in {5, 2}}

ParityCriteria ==
    {[id |-> "c1", goal_id |-> gid, beschrijving |-> "D", voltooid |-> FALSE] :
        gid \in GoalIds}

EachCreateSprint ==
    /\ Comparing
    /\ \E sprint \in ParitySprints :
        Lockstep("createSprint",
                 [a \in Adapters |-> createSprint(a, replica[a], sprint)])

EachUpdateSprint ==
    /\ Comparing
    /\ \E id \in SprintIds, updates \in {[volgnummer |-> 1], [einddatum |-> 1]} :
        Lockstep("updateSprint",
                 [a \in Adapters |-> updateSprint(a, replica[a], id, updates)])

EachDeleteSprint ==
    /\ Comparing
    /\ \E id \in SprintIds :
        Lockstep("deleteSprint",
                 [a \in Adapters |-> deleteSprint(a, replica[a], id)])

EachGetSprintById ==
    /\ Comparing
    /\ \E id \in SprintIds :
        Lockstep("getSprintById",
                 [a \in Adapters |-> Done(replica[a], getSprintById(a, replica[a], id))])

EachCreateGoal ==
    /\ Comparing
    /\ \E goal \in ParityGoals :
        Lockstep("createGoal",
                 [a \in Adapters |-> createGoal(a, replica[a], goal)])

EachUpdateGoal ==
    /\ Comparing
    /\ \E updates \in {[behaald |-> Some(TRUE)], [werkelijke_uren |-> Some(5)]} :
        Lockstep("updateGoal",
                 [a \in Adapters |-> updateGoal(a, replica[a], "g1", updates)])

EachDeleteGoal ==
    /\ Comparing
    /\ \E id \in GoalIds :
        Lockstep("deleteGoal",
                 [a \in Adapters |-> deleteGoal(a, replica[a], id)])

EachGetGoalById ==
    /\ Comparing
    /\ \E id \in GoalIds :
        Lockstep("getGoalById",
                 [a \in Adapters |-> Done(replica[a], getGoalById(a, replica[a], id))])

EachCreateCriterion ==
    /\ Comparing
    /\ \E criterion \in ParityCriteria :
        Lockstep("createCriterion",
                 [a \in Adapters |-> createCriterion(a, replica[a], criterion)])

EachUpdateCriterion ==
    /\ Comparing
    /\ Lockstep("updateCriterion",
                 [a \in Adapters |-> updateCriterion(a, replica[a], "c1", [voltooid |-> TRUE])])

EachDeleteCriterion ==
    /\ Comparing
    /\ \E id \in CritIds :
        Lockstep("deleteCriterion",
                 [a \in Adapters |-> deleteCriterion(a, replica[a], id)])

EachGetCriterionById ==
    /\ Comparing
    /\ Lockstep("getCriterionById",
                 [a \in Adapters |-> Done(replica[a], getCriterionById(a, replica[a], "c1"))])

NextParity ==
    \/ EachCreateSprint \/ EachUpdateSprint \/ EachDeleteSprint
    \/ EachGetSprintById
    \/ EachCreateGoal \/ EachUpdateGoal \/ EachDeleteGoal \/ EachGetGoalById
    \/ EachCreateCriterion \/ EachUpdateCriterion \/ EachDeleteCriterion
    \/ EachGetCriterionById

SpecParity == Init /\ [][NextParity]_vars

(******************** two service calls in flight together *****************)
\* A service call is a coroutine that suspends at every await of a storage
\* call; while two calls are in flight their storage steps interleave. A call
\* in flight is a record: pc is the storage call it makes next, seen what its
\* last read gave it, res how it ended (pc = "done").

\* GoalService.create(input), after its validation: sprintExists, createGoal
CreateGoalCall(input, id) ==
    [op |-> "GoalService.create", pc |-> "sprintExists", input |-> input,
     id |-> id, seen |-> FALSE, res |-> "pending"]

\* SprintService.delete(id): deleteSprint
DeleteSprintCall(id) ==
    [op |-> "SprintService.delete", pc |-> "deleteSprint", id |-> id,
     seen |-> FALSE, res |-> "pending"]

\* CriterionService.toggle(id): getCriterionById; then update(id, {voltooid:
\* !existing.voltooid}), which is getCriterionById, updateCriterion and
\* getCriterionById again
ToggleCall(id) ==
    [op |-> "CriterionService.toggle", pc |-> "getById", id |-> id,
     seen |-> FALSE, res |-> "pending"]

Ended(c, res) == [c EXCEPT !.pc = "done", !.res = res]

\* One storage step of a call in flight, at time t.
CallStep(a, db, c, t) ==
    CASE c.op = "GoalService.create" /\ c.pc = "sprintExists" ->
           IF sprintExists(a, db, c.input.sprint_id)
           THEN [db |-> db, c |-> [c EXCEPT !.pc = "createGoal", !.seen = TRUE]]
           ELSE [db |-> db, c |-> Ended(c, "notfound")]
      [] c.op = "GoalService.create" /\ c.pc = "createGoal" ->
           LET r == createGoal(a, db,
                        [id |-> c.id, sprint_id |-> c.input.sprint_id,
                         titel |-> c.input.titel,
                         beschrijving |-> c.input.beschrijving,
                         eigenaar |-> c.input.eigenaar,
                         geschatte_uren |-> c.input.geschatte_uren,
                         werkelijke_uren |-> Null, behaald |-> Null,
                         toelichting |-> Null, geleerde_lessen |-> Null,
                         aangemaakt_op |-> t, gewijzigd_op |-> t])
           IN  [db |-> r.db, c |-> Ended(c, IF r.ok THEN "ok" ELSE "storage")]
      [] c.op = "SprintService.delete" ->
           LET r == deleteSprint(a, db, c.id)
           IN  [db |-> r.db, c |-> Ended(c, IF r.val THEN "true" ELSE "false")]
      [] c.op = "CriterionService.toggle" /\ c.pc = "getById" ->
           LET existing == getCriterionById(a, db, c.id)
           IN  IF existing = Null THEN [db |-> db, c |-> Ended(c, "notfound")]
               ELSE [db |-> db,
                     c |-> [c EXCEPT !.pc = "update.getById",
                                     !.seen = TheValue(existing).voltooid]]
      [] c.op = "CriterionService.toggle" /\ c.pc = "update.getById" ->
           IF getCriterionById(a, db, c.id) = Null
           THEN [db |-> db, c |-> Ended(c, "notfound")]
           ELSE [db |-> db, c |-> [c EXCEPT !.pc = "update.updateCriterion"]]
      [] c.op = "CriterionService.toggle" /\ c.pc = "update.updateCriterion" ->
           LET r == updateCriterion(a, db, c.id, [voltooid |-> ~c.seen])
           IN  IF r.ok
               THEN [db |-> r.db, c |-> [c EXCEPT !.pc = "update.return"]]
               ELSE [db |-> r.db, c |-> Ended(c, "storage")]
      [] c.op = "CriterionService.toggle" /\ c.pc = "update.return" ->
           [db |-> db,
            c |-> Ended(c, IF getCriterionById(a, db, c.id) = Null
                           THEN "notfound" ELSE "ok")]

InFlight == bg # Idle /\ bg.kind = "calls"

\* GoalService.create for a stored sprint and SprintService.delete of that
\* sprint are called without awaiting the first (handleCreateGoal and a
\* delete of the sprint shown).
BeginCreateAndDelete ==
    /\ Ready
    /\ \E sid \in DOMAIN sprints, id \in FreshGoalIds(CurDb) :
        /\ bg' = [kind |-> "calls", first |-> FALSE,
                  flight |-> <<CreateGoalCall(GoalInput(sid, "T", 5), id),
                               DeleteSprintCall(sid)>>]
        /\ ret' = Returned("begin", "create+delete")
        /\ UNCHANGED <<replica, answers, adapter, sprints, goals, criteria, now>>

\* CriterionService.toggle is called twice on a stored criterion without
\* awaiting the first (handleToggleCriterion clicked twice); first is the
\* voltooid the criterion has at that moment.
BeginToggles ==
    /\ Ready
    /\ \E id \in DOMAIN criteria :
        /\ bg' = [kind |-> "calls",
                  first |-> TheValue(getCriterionById(adapter, CurDb, id)).voltooid,
                  flight |-> <<ToggleCall(id), ToggleCall(id)>>]
        /\ ret' = Returned("begin", "toggle+toggle")
        /\ UNCHANGED <<replica, answers, adapter, sprints, goals, criteria, now>>

\* A call in flight makes its next storage step.
StepCall ==
    /\ InFlight
    /\ \E n \in DOMAIN bg.flight :
        /\ bg.flight[n].pc # "done"
        /\ \E r \in {CallStep(adapter, CurDb, bg.flight[n], now)} :
            /\ SetDb(r.db)
            /\ bg' = [bg EXCEPT !.flight[n] = r.c]
            /\ ret' = Returned(r.c.op, r.c.res)
            /\ UNCHANGED <<replica, answers, adapter, now>>

AllDone == InFlight /\ \A n \in DOMAIN bg.flight : bg.flight[n].pc = "done"

\* Both calls have ended and their callers go on.
Settle ==
    /\ AllDone
    /\ bg' = Idle
    /\ ret' = Returned("settled", bg.flight[1].res)
    /\ UNCHANGED <<replica, answers, adapter, sprints, goals, criteria, now>>

NextAsync ==
    \/ SprintCreate({[volgnummer |-> v, startdatum |-> 1, einddatum |-> 2] :
                        v \in {1, 2}}, SprintIds)
    \/ GoalCreate({GoalInput("s1", "T", 5)}, {"g1"})
    \/ CriterionCreate({[goal_id |-> "g1", beschrijving |-> "D"]}, CritIds)
    \/ CriterionToggle
    \/ BeginCreateAndDelete \/ BeginToggles \/ StepCall \/ Settle

SpecAsync == Init /\ [][NextAsync]_vars

(********************************* claims **********************************)
\* C1: every stored goal's sprint_id is the id of a stored sprint, in every
\* state the service operations (importData included) reach, on every adapter.
GoalsReferToStoredSprints ==
    \A g \in DOMAIN goals : goals[g].sprint_id \in DOMAIN sprints

\* C2: every stored criterion's goal_id is the id of a stored goal, in every
\* state the service operations (importData included) reach, on every adapter.
CriteriaReferToStoredGoals ==
    \A c \in DOMAIN criteria : criteria[c].goal_id \in DOMAIN goals

\* C3: after SprintService.delete(id) has returned, getById finds neither the
\* sprint, nor any goal whose sprint_id was id, nor any criterion of such a
\* goal, on every adapter.
DeleteSprintCascades ==
    [][(ret'.op = "SprintService.delete" /\ ret'.res \in {"true", "false"}) =>
         LET id == ret'.id
             gids == GoalsOfSprint(CurDb, id)
             cids == CriteriaOfGoals(CurDb, gids)
         IN  /\ SprintService_getById(adapter, CurDb', id).val = Null
             /\ \A g \in gids : GoalService_getById(adapter, CurDb', g).val = Null
             /\ \A c \in cids :
                    CriterionService_getById(adapter, CurDb', c).val = Null]_vars

\* a sprint was deleted and took its goals and criteria along, while another
\* sprint's goal and that goal's criterion are still stored
DeletedSprintWithOthersLeft ==
    /\ ret.op = "SprintService.delete" /\ ret.res = "true"
    /\ GoalsOfSprint(CurDb, ret.id) = {}
    /\ \E g \in DOMAIN goals, c \in DOMAIN criteria :
        /\ goals[g].sprint_id \in DOMAIN sprints
        /\ criteria[c].goal_id = g

\* C4: transaction(work) is atomic on every adapter: when the work fails none
\* of its writes remains and the caller sees the failure; when it succeeds
\* all of its writes are in the store when transaction returns.
TransactionWorks ==
    {ImportWork(data, overwrite) :
        data \in {d \in Docs : validateImportData(d) = <<>>}, overwrite \in BOOLEAN}
    \cup {ManyWork(goalId, list, Listed(CritIds)) :
            goalId \in DOMAIN goals, list \in Batches}

TransactionIsAtomic ==
    \A w \in TransactionWorks :
        LET whole == RunToEnd(adapter, CurDb, w)
            t == transaction(adapter, CurDb, w)
        IN  Ready =>
              IF whole.st = "fail"
              THEN t.threw /\ t.db = CurDb
              ELSE ~t.threw /\ t.db = whole.db

\* C5: SQLiteStorage.transaction given asynchronous work commits after all of
\* the work's writes: it does not return while the work is unfinished, and
\* the work writes nothing once the transaction has returned.
SqliteTransactionCoversWork ==
    [][adapter = "sqlite" =>
         /\ ret'.op \in {"ExportService.importData", "CriterionService.createMany"}
                => bg' = Idle
         /\ ret'.op = "work" => CurDb' = CurDb]_vars

\* C6: the three implementations return the same results (thrown failures
\* included) and hold the same entities after every sequence of
\* StorageAdapter calls.
AdaptersAgree == SameAnswers /\ SameStored

\* C7: no two stored sprints have the same volgnummer, after any create,
\* update or importData on any adapter.
VolgnummerIsUnique ==
    \A x, y \in DOMAIN sprints :
        x # y => sprints[x].volgnummer # sprints[y].volgnummer

\* C8: every stored sprint's einddatum is later than its startdatum, after any
\* create, update or importData on any adapter.
SprintEndsAfterStart ==
    \A x \in DOMAIN sprints : sprints[x].einddatum > sprints[x].startdatum

\* C9: GoalService.create, update and logHours given an hours value that is
\* negative or not a multiple of 0.25 end in a validation error with the store
\* as it was, and every stored geschatte_uren and werkelijke_uren is a
\* non-negative multiple of 0.25.
QuarterHours(h) == h >= 0 /\ h % (HourScale \div 4) = 0

RejectedUnwritten(r) == r.res = "validation" /\ r.db = CurDb

HoursAreQuarterHours ==
    /\ \A g \in DOMAIN goals :
        /\ QuarterHours(goals[g].geschatte_uren)
        /\ goals[g].werkelijke_uren # Null =>
               QuarterHours(TheValue(goals[g].werkelijke_uren))
    /\ \A h \in {x \in HourInputs : ~QuarterHours(x)} :
        /\ \A sid \in SprintIds, id \in FreshGoalIds(CurDb) :
               RejectedUnwritten(GoalService_create(
                   adapter, CurDb, GoalInput(sid, "T", h), id, now))
        /\ \A id \in GoalIds :
            /\ RejectedUnwritten(GoalService_update(
                   adapter, CurDb, id, [geschatte_uren |-> h], now))
            /\ RejectedUnwritten(GoalService_update(
                   adapter, CurDb, id, [werkelijke_uren |-> Some(h)], now))
            /\ RejectedUnwritten(GoalService_logHours(adapter, CurDb, id, h, now))

\* logHours was refused for its hours while the goal keeps the quarter hours
\* an earlier call logged
RefusedHoursAfterLoggedHours ==
    /\ ret = Returned("GoalService.logHours", "validation")
    /\ \E g \in DOMAIN goals : goals[g].werkelijke_uren = Some(5)

\* C10: importing what exportAll returned into the emptied store reports no
\* error and leaves a store equal, field for field, to the exported one.
RoundTripRestores ==
    Ready =>
        LET r == importData(adapter, Db(NoRows, NoRows, NoRows),
                            exportAll(adapter, CurDb), FALSE)
        IN  r.stats.errors = <<>> /\ r.db = CurDb

\* The store as it stands once the work an importData call left pending (if
\* any) has run to its end.
Settled(a, r) ==
    IF r.bg = Idle THEN r.db ELSE RunToEnd(a, r.db, r.bg).db

AllSprintsStored(data) ==
    /\ data.sprints # <<>>
    /\ \A i \in 1..Len(data.sprints) : data.sprints[i].id \in DOMAIN sprints

\* C11: importData without the overwrite flag, given a valid document all of
\* whose sprint ids are already stored, writes nothing (neither when it
\* returns nor later), and the result it returns counts every sprint of the
\* document as skipped, with one warning per skipped sprint and nothing
\* imported.
ImportSkipsStoredSprints ==
    Ready =>
      \A data \in Docs :
        (validateImportData(data) = <<>> /\ AllSprintsStored(data)) =>
          \E r \in {importData(adapter, CurDb, data, FALSE)} :
            /\ r.db = CurDb
            /\ Settled(adapter, r) = CurDb
            /\ r.stats.skipped = Len(data.sprints)
            /\ Len(r.stats.errors) = Len(data.sprints)
            /\ r.stats.sprints = 0 /\ r.stats.goals = 0 /\ r.stats.criteria = 0

\* Documents of one sprint, one goal and one criterion in which any of four
\* fields may be invalid, independently of the others, and the messages each
\* invalid field should produce.
BrokenDoc(sid, v, h, b) ==
    Doc(<<DocSprint(sid, v, 1, 2,
            <<DocGoal("g1", "s1", h, Null, Null,
                <<[DocCriterion("c1", "g1", FALSE) EXCEPT !.beschrijving = b]>>)>>)>>)

ExpectedErrors(sid, v, h, b) ==
    (IF sid = MalformedId THEN {Err(<<1>>, "id")} ELSE {})
    \cup (IF v = 0 THEN {Err(<<1>>, "volgnummer")} ELSE {})
    \cup (IF h < 0 THEN {Err(<<1, 1>>, "geschatte_uren")} ELSE {})
    \cup (IF h > 0 /\ ~QuarterHours(h)
          THEN {Err(<<1, 1>>, "geschatte_uren precision")} ELSE {})
    \cup (IF b = "" THEN {Err(<<1, 1, 1>>, "beschrijving")} ELSE {})

\* C12: when a sprint, a goal or a criterion anywhere in the document fails
\* structural validation, importData writes nothing, returns zero imported
\* counts, and its errors list holds exactly one path-prefixed message for
\* every invalid field of the whole document.
InvalidDocumentIsRefusedWhole ==
    Ready =>
      \A sid \in {"s1", MalformedId}, v \in {0, 1}, h \in HourInputs,
         b \in {"D", ""}, overwrite \in BOOLEAN :
        ExpectedErrors(sid, v, h, b) # {} =>
          \E r \in {importData(adapter, CurDb, BrokenDoc(sid, v, h, b), overwrite)} :
            /\ r.db = CurDb /\ r.bg = Idle
            /\ r.stats.sprints = 0 /\ r.stats.goals = 0
            /\ r.stats.criteria = 0 /\ r.stats.skipped = 0
            /\ {r.stats.errors[n] : n \in 1..Len(r.stats.errors)}
                 = ExpectedErrors(sid, v, h, b)
            /\ Len(r.stats.errors) = Cardinality(ExpectedErrors(sid, v, h, b))

\* An invalid document was refused while the store held a sprint and a goal.
RefusedDocumentOnFilledStore ==
    /\ ret = Returned("ExportService.importData", "invalid")
    /\ sprints # NoRows /\ goals # NoRows

\* The number of 'Import failed' messages in an errors list.
ImportFailedCount(errors) ==
    Cardinality({n \in 1..Len(errors) : errors[n].field = "Import failed"})

\* C13: when a write of the import work fails (a storage constraint refuses
\* it), the store after importData has returned is the store before the call,
\* both at the return and once everything the call started has finished, and
\* the returned errors hold one 'Import failed' message.
FailedImportRestoresStore ==
    Ready =>
      \A data \in Docs, overwrite \in BOOLEAN :
        (/\ validateImportData(data) = <<>>
         /\ RunToEnd(adapter, CurDb, ImportWork(data, overwrite)).st = "fail") =>
          \E r \in {importData(adapter, CurDb, data, overwrite)} :
            /\ r.db = CurDb
            /\ Settled(adapter, r) = CurDb
            /\ ImportFailedCount(r.stats.errors) = 1

\* The number of 'already exists' warnings in an errors list.
ExistsCount(errors) ==
    Cardinality({n \in 1..Len(errors) : errors[n].field = "exists"})

\* A goal of a sprint that will be imported carries the id of a stored goal.
GoalIdConflict(data) ==
    \E i \in 1..Len(data.sprints) :
        /\ data.sprints[i].id \notin DOMAIN sprints
        /\ "goals" \in DOMAIN data.sprints[i]
        /\ \E j \in 1..Len(data.sprints[i].goals) :
               data.sprints[i].goals[j].id \in DOMAIN goals

\* C14: importData leaves no failure unreported, whatever the document, the
\* store and the adapter: a document that fails validation returns its
\* validation messages; work that fails (a storage constraint, or a sprint
\* without a goals list) returns an 'Import failed' message; every sprint the
\* work skips has its warning; an id that is already taken ends in an error.
ImportReportsEveryFailure ==
    Ready =>
      \A data \in Docs \cup LooseDocs, overwrite \in BOOLEAN :
        \E r \in {importData(adapter, CurDb, data, overwrite)},
           whole \in {RunToEnd(adapter, CurDb, ImportWork(data, overwrite))} :
          IF validateImportData(data) # <<>>
          THEN r.stats.errors = validateImportData(data)
          ELSE /\ whole.st = "fail" => ImportFailedCount(r.stats.errors) = 1
               /\ ExistsCount(r.stats.errors) = whole.w.stats.skipped
               /\ (~overwrite /\ GoalIdConflict(data)) => r.stats.errors # <<>>

\* Documents of one sprint with one goal and one criterion, over the three
\* values of behaald, with and without logged hours, with timestamps that are
\* not the time of the import.
TriStateGoal(behaald, actual) ==
    [id |-> "g1", sprint_id |-> "s1", titel |-> "T", beschrijving |-> "B",
     eigenaar |-> "E", geschatte_uren |-> 5, werkelijke_uren |-> actual,
     behaald |-> behaald, toelichting |-> Null, geleerde_lessen |-> Null,
     aangemaakt_op |-> MaxTime + 1, gewijzigd_op |-> MaxTime + 2]

TriStateCriterion(voltooid) ==
    [id |-> "c1", goal_id |-> "g1", beschrijving |-> "D", voltooid |-> voltooid]

TriStateDoc(behaald, actual) ==
    Doc(<<[id |-> "s1", volgnummer |-> 1, startdatum |-> 1, einddatum |-> 2,
           goals |-> <<[f \in DOMAIN TriStateGoal(behaald, actual)
                              \cup {"success_criteria"} |->
                          IF f = "success_criteria"
                          THEN <<TriStateCriterion(actual # Null)>>
                          ELSE TriStateGoal(behaald, actual)[f]]>>]>>)

\* C15: once importData has imported a sprint, the sprint, its goal and its
\* criterion read back from the store with every field as the document gave
\* it: behaald unset, true or false as given, identifiers and timestamps
\* those of the document.
ImportKeepsGivenFields ==
    Ready =>
      \A behaald \in {Null, Some(TRUE), Some(FALSE)}, actual \in {Null, Some(10)},
         overwrite \in BOOLEAN :
        \E r \in {importData(adapter, CurDb, TriStateDoc(behaald, actual), overwrite)} :
          \A db \in {r.db, Settled(adapter, r)} :
            (\/ r.stats.sprints = 1 /\ db = r.db
             \/ /\ db = Settled(adapter, r)
                /\ validateImportData(TriStateDoc(behaald, actual)) = <<>>
                /\ RunToEnd(adapter, CurDb,
                       ImportWork(TriStateDoc(behaald, actual), overwrite))
                     .w.stats.criteria = 1) =>
              /\ getSprintById(adapter, db, "s1")
                   = Some([id |-> "s1", volgnummer |-> 1, startdatum |-> 1,
                           einddatum |-> 2])
              /\ getGoalById(adapter, db, "g1") = Some(TriStateGoal(behaald, actual))
              /\ getCriterionById(adapter, db, "c1")
                   = Some(TriStateCriterion(actual # Null))

\* An import has stored a goal that was not achieved, with its criterion.
ImportedUnachievedGoal ==
    /\ ret = Returned("ExportService.importData", "ok")
    /\ bg = Idle
    /\ "c1" \in DOMAIN criteria
    /\ getGoalById(adapter, CurDb, "g1") # Null
    /\ TheValue(getGoalById(adapter, CurDb, "g1")).behaald = Some(FALSE)

\* What a sprint of a document puts under its id: the sprint, its goals and
\* their criteria, as the adapter reads them back.
GivenUnder(sp) ==
    [sprint |-> Some([id |-> sp.id, volgnummer |-> sp.volgnummer,
                      startdatum |-> sp.startdatum, einddatum |-> sp.einddatum]),
     goals |-> {[f \in DOMAIN sp.goals[j] \ {"success_criteria"} |-> sp.goals[j][f]] :
                  j \in 1..Len(sp.goals)},
     criteria |-> UNION {{sp.goals[j].success_criteria[k] :
                            k \in 1..Len(sp.goals[j].success_criteria)} :
                         j \in 1..Len(sp.goals)}]

StoredUnder(a, db, id) ==
    [sprint |-> getSprintById(a, db, id),
     goals |-> {TheValue(getGoalById(a, db, gid)) : gid \in GoalsOfSprint(db, id)},
     criteria |-> {TheValue(getCriterionById(a, db, cid)) :
                     cid \in CriteriaOfGoals(db, GoalsOfSprint(db, id))}]

\* The goals of a sprint of a document belong to it, and so do their criteria.
WellNested(sp) ==
    \A j \in 1..Len(sp.goals) :
        /\ sp.goals[j].sprint_id = sp.id
        /\ \A k \in 1..Len(sp.goals[j].success_criteria) :
               sp.goals[j].success_criteria[k].goal_id = sp.goals[j].id

\* C16: importData with overwrite, given a valid one-sprint document whose
\* sprint id is stored, has replaced what was stored under that id when it
\* returns: the sprint, goals and criteria under the id are exactly those of
\* the document, and no sprint is counted as skipped.
OverwriteReplacesSprint ==
    Ready =>
      \A data \in Docs :
        (/\ Len(data.sprints) = 1 /\ validateImportData(data) = <<>>
         /\ WellNested(data.sprints[1])
         /\ data.sprints[1].id \in DOMAIN sprints) =>
          \E r \in {importData(adapter, CurDb, data, TRUE)} :
            r.stats.errors = <<>> =>
              /\ StoredUnder(adapter, r.db, data.sprints[1].id)
                   = GivenUnder(data.sprints[1])
              /\ r.stats.skipped = 0

\* C17: when a description of the batch fails validation (it is empty),
\* CriterionService.createMany on a stored goal throws and none of the
\* batch's criteria is stored afterwards, the valid ones before the invalid
\* one included.
CreateManyIsAllOrNothing ==
    Ready =>
      \A goalId \in DOMAIN goals, list \in Batches :
        (/\ \E n \in 1..Len(list) : list[n] = ""
         /\ Cardinality(FreshCritIds(CurDb)) >= Len(list)) =>
          \E r \in {CriterionService_createMany(adapter, CurDb, goalId, list,
                                                 Listed(FreshCritIds(CurDb)))} :
            /\ r.res = "failed"
            /\ r.db = CurDb

\* C18: GoalService.create with a well-formed sprint_id that is not stored,
\* and CriterionService.create with a well-formed goal_id that is not stored,
\* fail with 'not found' (not with a validation error) and store nothing.
CreateUnderMissingParentIsNotFound ==
    Ready =>
      /\ \A sid \in SprintIds \ DOMAIN sprints, id \in FreshGoalIds(CurDb) :
           \E r \in {GoalService_create(adapter, CurDb, GoalInput(sid, "T", 5),
                                        id, now)} :
             r.res = "notfound" /\ r.db = CurDb
      /\ \A gid \in GoalIds \ DOMAIN goals, id \in FreshCritIds(CurDb) :
           \E r \in {CriterionService_create(adapter, CurDb,
                         [goal_id |-> gid, beschrijving |-> "D"], id)} :
             r.res = "notfound" /\ r.db = CurDb

\* A criterion was refused for a goal that is not stored, while another goal
\* is stored.
CriterionRefusedForMissingGoal ==
    /\ ret = Returned("CriterionService.create", "notfound")
    /\ goals # NoRows

\* Inputs that break a validation rule of their operation.
BadSprintInputs ==
    {[volgnummer |-> 0, startdatum |-> 1, einddatum |-> 2],
     [volgnummer |-> 1, startdatum |-> 0, einddatum |-> 2],
     [volgnummer |-> 1, startdatum |-> 2, einddatum |-> 2],
     [volgnummer |-> 1, startdatum |-> 2, einddatum |-> 1]}

BadSprintUpdates == {[volgnummer |-> 0], [startdatum |-> 0], [einddatum |-> 0]}

BadGoalInputs ==
    UNION {{GoalInput(sid, "", 5), GoalInput(sid, LongText, 5),
            GoalInput(sid, "T", 0 - 5), GoalInput(sid, "T", 2)} : sid \in SprintIds}
    \cup {GoalInput(MalformedId, "T", 5)}

BadGoalUpdates ==
    {[geschatte_uren |-> 0 - 5], [geschatte_uren |-> 2],
     [werkelijke_uren |-> Some(2)], [titel |-> ""], [titel |-> LongText]}

BadCriterionInputs ==
    {[goal_id |-> gid, beschrijving |-> ""] : gid \in GoalIds}
    \cup {[goal_id |-> MalformedId, beschrijving |-> "D"]}

BadCriterionUpdates == {[beschrijving |-> ""]}

\* C19: a create or update of SprintService, GoalService or CriterionService
\* whose input breaks a validation rule fails with a validation error and
\* leaves the store as it was, whether or not the id it names is stored.
InvalidInputWritesNothing ==
    Ready =>
      /\ \A input \in BadSprintInputs, id \in FreshSprintIds(CurDb) :
           RejectedUnwritten(SprintService_create(adapter, CurDb, input, id))
      /\ \A input \in BadSprintUpdates, id \in SprintIds :
           RejectedUnwritten(SprintService_update(adapter, CurDb, id, input))
      /\ \A input \in BadGoalInputs, id \in FreshGoalIds(CurDb) :
           RejectedUnwritten(GoalService_create(adapter, CurDb, input, id, now))
      /\ \A input \in BadGoalUpdates, id \in GoalIds :
           RejectedUnwritten(GoalService_update(adapter, CurDb, id, input, now))
      /\ \A input \in BadCriterionInputs, id \in FreshCritIds(CurDb) :
           RejectedUnwritten(CriterionService_create(adapter, CurDb, input, id))
      /\ \A input \in BadCriterionUpdates, id \in CritIds :
           RejectedUnwritten(CriterionService_update(adapter, CurDb, id, input))

\* A goal update was refused by validation while a goal and a criterion were
\* stored.
GoalUpdateRefusedOnFilledStore ==
    /\ ret = Returned("GoalService.update", "validation")
    /\ goals # NoRows /\ criteria # NoRows

\* C20: deleting a sprint, a goal or a criterion by a well-formed id returns
\* true when the id is stored and false, with the store unchanged, when it is
\* not, on every adapter.
DeleteTellsWhetherItDeleted ==
    Ready =>
      /\ \A id \in SprintIds :
           \E r \in {SprintService_delete(adapter, CurDb, id)} :
             /\ r.res = "ok" /\ r.val = (id \in DOMAIN sprints)
             /\ id \notin DOMAIN sprints => r.db = CurDb
      /\ \A id \in GoalIds :
           \E r \in {GoalService_delete(adapter, CurDb, id)} :
             /\ r.res = "ok" /\ r.val = (id \in DOMAIN goals)
             /\ id \notin DOMAIN goals => r.db = CurDb
      /\ \A id \in CritIds :
           \E r \in {CriterionService_delete(adapter, CurDb, id)} :
             /\ r.res = "ok" /\ r.val = (id \in DOMAIN criteria)
             /\ id \notin DOMAIN criteria => r.db = CurDb

\* A call failed with 'not found' and wrote nothing.
NotFoundUnwritten(r) == r.res = "notfound" /\ r.db = CurDb

\* C21: SprintService.update, GoalService.update, CriterionService.update and
\* the mutators built on them (markAchieved, logHours, toggle), called with
\* valid input and a well-formed id that is not stored, fail with 'not found'
\* and leave the store as it was.
UpdateOfMissingIsNotFound ==
    Ready =>
      /\ \A id \in SprintIds \ DOMAIN sprints,
            input \in {[volgnummer |-> 2], [einddatum |-> 2], NoRows} :
           NotFoundUnwritten(SprintService_update(adapter, CurDb, id, input))
      /\ \A id \in GoalIds \ DOMAIN goals :
           /\ \A input \in {[geschatte_uren |-> 10], [werkelijke_uren |-> Null],
                            [titel |-> "T"]} :
                NotFoundUnwritten(GoalService_update(adapter, CurDb, id, input, now))
           /\ \A behaald \in BOOLEAN :
                NotFoundUnwritten(GoalService_markAchieved(adapter, CurDb, id,
                                      behaald, Null, Some("N"), now))
           /\ NotFoundUnwritten(GoalService_logHours(adapter, CurDb, id, 5, now))
      /\ \A id \in CritIds \ DOMAIN criteria :
           /\ \A input \in {[voltooid |-> TRUE], [beschrijving |-> "D"], NoRows} :
                NotFoundUnwritten(CriterionService_update(adapter, CurDb, id, input))
           /\ NotFoundUnwritten(CriterionService_toggle(adapter, CurDb, id))

\* A toggle was refused for a criterion that is not stored, while another
\* criterion is stored.
ToggleRefusedForMissingCriterion ==
    /\ ret = Returned("CriterionService.toggle", "notfound")
    /\ criteria # NoRows

\* C22: for every date and every set of stored sprints, getCurrentSprint
\* returns null when no stored sprint's range contains the date, and
\* otherwise a sprint whose range contains the date and whose volgnummer is
\* the highest among the sprints that contain it.
CurrentSprintIsHighestContaining ==
    Ready =>
      \A today \in 0..3, inserted \in InsertionOrders(DOMAIN sprints) :
        LET hits == {id \in DOMAIN sprints :
                        /\ sprints[id].startdatum <= today
                        /\ today <= sprints[id].einddatum}
            found == getCurrentSprint(adapter, CurDb, inserted, today)
        IN  IF hits = {} THEN found = Null
            ELSE /\ found # Null
                 /\ TheValue(found).id \in hits
                 /\ \A id \in hits :
                        sprints[id].volgnummer <= TheValue(found).volgnummer

\* The successful outcomes of GoalService.update, markAchieved and logHours
\* on goal id at the present state and time.
GoalMutations(id) ==
    {r \in {GoalService_update(adapter, CurDb, id, input, now) :
               input \in {[titel |-> "U"], [geschatte_uren |-> 10]}}
           \cup {GoalService_markAchieved(adapter, CurDb, id, b, Null, Null, now) :
                   b \in BOOLEAN}
           \cup {GoalService_logHours(adapter, CurDb, id, 5, now)} :
        r.res = "ok"}

\* C23 (as stated): every successful GoalService.update, markAchieved and
\* logHours leaves the goal's gewijzigd_op no earlier than it was and no
\* earlier than its aangemaakt_op.
GoalStampNeverDecreases ==
    Ready =>
      \A id \in DOMAIN goals : \A r \in GoalMutations(id) :
        /\ TheValue(r.val).gewijzigd_op >= goals[id].gewijzigd_op
        /\ TheValue(r.val).gewijzigd_op >= TheValue(r.val).aangemaakt_op

\* C23 (amended): every successful GoalService.update, markAchieved and
\* logHours sets the goal's gewijzigd_op to the time of the call and leaves
\* aangemaakt_op alone; so for a goal whose stored timestamps are not later
\* than the clock, gewijzigd_op does not decrease and is not earlier than
\* aangemaakt_op.
GoalStampedAtCallTime ==
    Ready =>
      \A id \in DOMAIN goals : \A r \in GoalMutations(id) :
        /\ TheValue(r.val).gewijzigd_op = now
        /\ TheValue(r.val).aangemaakt_op = goals[id].aangemaakt_op
        /\ TheValue(getGoalById(adapter, r.db, id)) = TheValue(r.val)
        /\ (goals[id].gewijzigd_op <= now /\ goals[id].aangemaakt_op <= now) =>
             /\ TheValue(r.val).gewijzigd_op >= goals[id].gewijzigd_op
             /\ TheValue(r.val).gewijzigd_op >= TheValue(r.val).aangemaakt_op

\* Hours were logged on a goal at a later time than its creation.
HoursLoggedLater ==
    /\ ret = Returned("GoalService.logHours", "ok")
    /\ \E id \in DOMAIN goals :
          /\ goals[id].gewijzigd_op = now
          /\ goals[id].aangemaakt_op < now

\* A goal as createGoal receives it, and goals and sprints that break one
\* length, range or precision rule of the validation module.
PlainGoal(sid) ==
    [id |-> "g2", sprint_id |-> sid, titel |-> "T", beschrijving |-> "B",
     eigenaar |-> "E", geschatte_uren |-> 5, werkelijke_uren |-> Null,
     behaald |-> Null, toelichting |-> Null, geleerde_lessen |-> Null,
     aangemaakt_op |-> 1, gewijzigd_op |-> 1]

RuleBreakingGoalFields ==
    {[titel |-> ""], [titel |-> LongText], [beschrijving |-> LongText],
     [eigenaar |-> ""], [eigenaar |-> LongText],
     [geschatte_uren |-> 0 - 5], [geschatte_uren |-> 2],
     [werkelijke_uren |-> Some(0 - 5)], [werkelijke_uren |-> Some(2)],
     [toelichting |-> Some(LongText)], [geleerde_lessen |-> Some(LongText)]}

RuleBreakingSprintFields ==
    {[volgnummer |-> 0], [einddatum |-> 1], [startdatum |-> 2, einddatum |-> 2]}

\* C24: a sprint or goal written directly through SQLiteStorage (createSprint,
\* createGoal, updateSprint, updateGoal) that breaks a length, range or
\* quarter-hour rule of the validation module is refused by the schema, and
\* the store keeps what it held.
SchemaEnforcesValidationRules ==
    LET db == replica["sqlite"] IN
    /\ \A bad \in RuleBreakingSprintFields :
         /\ \A r \in {createSprint("sqlite", db,
                          Merge([id |-> "s2", volgnummer |-> 3,
                                 startdatum |-> 1, einddatum |-> 2], bad))} :
              "s2" \notin DOMAIN db.sprints => ~r.ok /\ r.db = db
         /\ \A id \in DOMAIN db.sprints :
              \A r \in {updateSprint("sqlite", db, id, bad)} :
                ~r.ok /\ r.db = db
    /\ \A bad \in RuleBreakingGoalFields :
         /\ \A sid \in DOMAIN db.sprints :
              \A r \in {createGoal("sqlite", db, Merge(PlainGoal(sid), bad))} :
                "g2" \notin DOMAIN db.goals => ~r.ok /\ r.db = db
         /\ \A id \in DOMAIN db.goals :
              \A r \in {updateGoal("sqlite", db, id, bad)} :
                ~r.ok /\ r.db = db

\* The zones and instants getSuggestedNextDates is called in: UTC, a zone one
\* hour ahead of UTC and a zone five hours behind it whose clocks go forward
\* on day 7; a Friday noon, a Saturday noon, a Sunday noon, and the last hour
\* before the UTC midnight that begins a Monday.
Zones == {Zone(0, NoDst), Zone(1, 7), Zone(0 - 5, 7)}

Instants == {DateOfDay(5) + 12, DateOfDay(6) + 12, DateOfDay(7) + 12,
             DateOfDay(8) - 1}

\* The local calendar day of an instant.
LocalDay(u, z) == LocalTime(u, z) \div 24

\* C25: getSuggestedNextDates returns, when a sprint is stored, a startdatum
\* that is the day after the einddatum of a sprint with the highest
\* volgnummer, and otherwise today, moved to the Monday after when today is
\* a Saturday or a Sunday; in both cases einddatum is startdatum plus 13 days.
SuggestedDatesSpanTwoWeeks ==
    Ready =>
      \A z \in Zones, u \in Instants, inserted \in InsertionOrders(DOMAIN sprints) :
        \E r \in {SprintService_getSuggestedNextDates(adapter, CurDb, inserted,
                                                      u, z)} :
          /\ r.einddatum = r.startdatum + 13
          /\ IF sprints # NoRows
             THEN \E id \in DOMAIN sprints :
                    /\ \A o \in DOMAIN sprints :
                          sprints[o].volgnummer <= sprints[id].volgnummer
                    /\ r.startdatum = sprints[id].einddatum + 1
             ELSE LET today == LocalDay(u, z)
                  IN  r.startdatum = CASE today % 7 = 6 -> today + 2
                                       [] today % 7 = 0 -> today + 1
                                       [] OTHER -> today

\* The distinct sprint ids of a document.
DocSprintIds(data) == {data.sprints[i].id : i \in 1..Len(data.sprints)}

\* C26: the sprints, goals and criteria counts importData returns are the
\* numbers of sprints, goals and criteria the call has left stored when it
\* returns: all three are 0 when the import failed, without overwrite they
\* are the numbers of rows the store has gained, and a sprint id that occurs
\* twice in the document is counted once.
ImportCountsWhatItStored ==
    Ready =>
      \A data \in Docs \cup LooseDocs, overwrite \in BOOLEAN :
        \E r \in {importData(adapter, CurDb, data, overwrite)} :
          /\ ImportFailedCount(r.stats.errors) > 0 =>
               r.stats.sprints = 0 /\ r.stats.goals = 0 /\ r.stats.criteria = 0
          /\ ~overwrite =>
               /\ r.stats.sprints
                    = Cardinality(DOMAIN r.db.sprints \ DOMAIN sprints)
               /\ r.stats.goals = Cardinality(DOMAIN r.db.goals \ DOMAIN goals)
               /\ r.stats.criteria
                    = Cardinality(DOMAIN r.db.criteria \ DOMAIN criteria)
          /\ r.stats.sprints <= Cardinality(DocSprintIds(data))

\* C27: transaction(work) resolves to what the work resolves to, on every
\* adapter: CriterionService.createMany on a stored goal, given valid
\* descriptions, returns one criterion per description, in the order given,
\* and each returned criterion is stored.
CreateManyReturnsItsCriteria ==
    Ready =>
      \A goalId \in DOMAIN goals, list \in Batches :
        (/\ \A n \in 1..Len(list) : list[n] = "D"
         /\ Cardinality(FreshCritIds(CurDb)) >= Len(list)) =>
          \E r \in {CriterionService_createMany(adapter, CurDb, goalId, list,
                                                 Listed(FreshCritIds(CurDb)))} :
            /\ r.res = "ok"
            /\ Len(r.val) = Len(list)
            /\ \A n \in 1..Len(list) :
                 /\ r.val[n].beschrijving = list[n]
                 /\ r.val[n].goal_id = goalId
                 /\ getCriterionById(adapter, r.db, r.val[n].id) = Some(r.val[n])
            /\ \A n, m \in 1..Len(list) : n # m => r.val[n].id # r.val[m].id

\* C28: when GoalService.create for a sprint and SprintService.delete of that
\* sprint are in flight together, then once both have ended, however their
\* storage steps interleaved, no stored goal names a sprint that is not
\* stored.
NoGoalOutlivesItsSprint ==
    (AllDone /\ bg.flight[1].op = "GoalService.create") =>
      \A g \in DOMAIN goals : goals[g].sprint_id \in DOMAIN sprints

\* C29: when two CriterionService.toggle calls on the same stored criterion
\* are in flight together and both have ended successfully, however their
\* storage reads and writes interleaved, the criterion's voltooid is what it
\* was when the calls were made.
TwoTogglesCancelOut ==
    (/\ AllDone
     /\ \A n \in DOMAIN bg.flight :
          bg.flight[n].op = "CriterionService.toggle" /\ bg.flight[n].res = "ok") =>
      TheValue(getCriterionById(adapter, CurDb, bg.flight[1].id)).voltooid = bg.first

\* C30: GoalService.markAchieved(id, behaald) without notes, on a stored
\* goal, stores behaald, sets toelichting and geleerde_lessen to null
\* whatever they were, stamps gewijzigd_op, and changes no other field of the
\* goal, no other goal, no sprint and no criterion.
MarkAchievedClearsNotesOnly ==
    Ready =>
      \A id \in DOMAIN goals, behaald \in BOOLEAN :
        \E r \in {GoalService_markAchieved(adapter, CurDb, id, behaald,
                                           Null, Null, now)} :
          LET old == TheValue(getGoalById(adapter, CurDb, id))
              new == TheValue(getGoalById(adapter, r.db, id))
          IN  /\ r.res = "ok"
              /\ new.behaald = Some(behaald)
              /\ new.toelichting = Null /\ new.geleerde_lessen = Null
              /\ new.gewijzigd_op = now
              /\ \A f \in DOMAIN old \ {"behaald", "toelichting",
                                        "geleerde_lessen", "gewijzigd_op"} :
                     new[f] = old[f]
              /\ DOMAIN new = DOMAIN old
              /\ r.db.sprints = sprints /\ r.db.criteria = criteria
              /\ DOMAIN r.db.goals = DOMAIN goals
              /\ \A o \in DOMAIN goals \ {id} : r.db.goals[o] = goals[o]

\* A goal with logged hours and a criterion was marked achieved without
\* notes, later than it was created.
MarkedAchievedWithoutNotes ==
    /\ ret = Returned("GoalService.markAchieved", "ok")
    /\ criteria # NoRows
    /\ \E id \in DOMAIN goals :
          /\ goals[id].toelichting = Null /\ goals[id].geleerde_lessen = Null
          /\ goals[id].werkelijke_uren # Null
          /\ goals[id].gewijzigd_op > goals[id].aangemaakt_op

====
